---- MODULE Spec2Model ----
(***************************************************************************)
(* Model of inexio/go-monitoringplugin: the Response status aggregation,   *)
(* the Thresholds evaluator and the performance-data store.                *)
(*                                                                         *)
(* Strings are sequences of tokens: a token is one character ("a", "|")    *)
(* or a fixed phrase of the program (an error text, a severity name, the   *)
(* " | " before the performance data); no phrase put into a message holds  *)
(* a '|'.  The empty string is << >>.  Metric values and threshold bounds  *)
(* are integers (one instantiation of T cmp.Ordered).                      *)
(***************************************************************************)
EXTENDS Integers, Sequences, FiniteSets, TLC

(***************************************************************************)
(* Program constants.                                                      *)
(***************************************************************************)
OK == 0
WARNING == 1
CRITICAL == 2
UNKNOWN == 3

InvalidCharacterRemove == 1
InvalidCharacterReplace == 2
InvalidCharacterRemoveMessage == 3
InvalidCharacterReplaceWithError == 4
InvalidCharacterReplaceWithErrorAndSetUNKNOWN == 5

Pipe == "|"
Newline == <<"\n">>
DefaultInvalidText == <<"default output message contains invalid character">>
MessageInvalidText == <<"output message contains invalid character">>

(***************************************************************************)
(* Bounds of the model.                                                    *)
(***************************************************************************)
MaxMsgs == 1        \* stored output messages
MaxPoints == 1      \* data points handed to AddPerformanceDataPoint
MaxCalls == 3       \* length of a recorded call sequence
MaxBound == 2       \* threshold bounds range over 0..MaxBound
MaxFinalMsgs == 2   \* stored output messages, where finalization is checked
MaxSortMsgs == 3    \* stored output messages, where sorting is checked
MaxRepeatMsgs == 2  \* stored output messages, where repeated finalization is checked
MaxHeap == 2        \* data points the caller creates, where setters follow adds
MaxStored == 2      \* stored data points, where setters follow adds

VARIABLES
    statusCode,                   \* Response.statusCode
    defaultOkMessage,             \* Response.defaultOkMessage
    outputMessages,               \* Response.outputMessages
    heap,                         \* the *PerformanceDataPoint objects, by address
    points,                       \* performanceData.points (addresses)
    keys,                         \* performanceData.keys (key -> index)
    outputDelimiter,              \* Response.outputDelimiter
    performanceDataJSONLabel,     \* Response.performanceDataJSONLabel
    printPerformanceData,         \* Response.printPerformanceData
    sortOutputMessagesByStatus,   \* Response.sortOutputMessagesByStatus
    invalidCharacterBehaviour,    \* Response.invalidCharacterBehaviour
    invalidCharacterReplaceChar,  \* Response.invalidCharacterReplaceChar
    th,                           \* a Thresholds value held by the caller
    ret,                          \* the last call and what it returned
    calls                         \* the calls made so far (recorded per specification)

respVars == <<statusCode, defaultOkMessage, outputMessages, heap, points, keys,
              outputDelimiter, performanceDataJSONLabel, printPerformanceData,
              sortOutputMessagesByStatus, invalidCharacterBehaviour,
              invalidCharacterReplaceChar>>
vars == <<respVars, th, ret, calls>>

(***************************************************************************)
(* strings                                                                 *)
(***************************************************************************)
\* strings.Contains(s, "|")
Contains(s, c) == \E i \in 1..Len(s) : s[i] = c

RECURSIVE ReplaceAll(_, _, _)
\* strings.ReplaceAll(s, old, new) for a one-character old
ReplaceAll(s, old, new) ==
    IF s = << >> THEN << >>
    ELSE (IF Head(s) = old THEN new ELSE <<Head(s)>>) \o ReplaceAll(Tail(s), old, new)

RECURSIVE Join(_, _)
\* the elements of a sequence of strings, separated by sep
Join(ss, sep) ==
    IF ss = << >> THEN << >>
    ELSE IF Len(ss) = 1 THEN ss[1]
    ELSE ss[1] \o sep \o Join(Tail(ss), sep)

(***************************************************************************)
(* status codes                                                            *)
(***************************************************************************)
StatusCode2Text(code) ==
    IF code = OK THEN "OK"
    ELSE IF code = WARNING THEN "WARNING"
    ELSE IF code = CRITICAL THEN "CRITICAL"
    ELSE "UNKNOWN"

\* The argument of String2StatusCode is a string of characters, one token per
\* character.  Chars gives the characters of a status name.
Chars(name) ==
    IF name = "OK" THEN <<"O", "K">>
    ELSE IF name = "WARNING" THEN <<"W", "A", "R", "N", "I", "N", "G">>
    ELSE IF name = "CRITICAL" THEN <<"C", "R", "I", "T", "I", "C", "A", "L">>
    ELSE <<"U", "N", "K", "N", "O", "W", "N">>

\* the letters of the status names, upper and lower case, and the Kelvin
\* sign, which Unicode simple case folding puts in one class with K and k
UpperLetters == <<"A", "C", "G", "I", "K", "L", "N", "O", "R", "T", "U", "W">>
LowerLetters == <<"a", "c", "g", "i", "k", "l", "n", "o", "r", "t", "u", "w">>
KelvinSign == "U+212A"

\* the representative of a character's class under simple case folding
SimpleFold(c) ==
    IF \E i \in 1..Len(LowerLetters) : LowerLetters[i] = c
      THEN UpperLetters[CHOOSE i \in 1..Len(LowerLetters) : LowerLetters[i] = c]
    ELSE IF c = KelvinSign THEN "K"
    ELSE c

\* strings.EqualFold
EqualFold(s, t) ==
    /\ Len(s) = Len(t)
    /\ \A i \in 1..Len(s) : SimpleFold(s[i]) = SimpleFold(t[i])

\* A mutant of String2StatusCode: the names are compared exactly.
String2StatusCodeExact(s) ==
    IF Chars("OK") = s THEN OK
    ELSE IF Chars("WARNING") = s THEN WARNING
    ELSE IF Chars("CRITICAL") = s THEN CRITICAL
    ELSE UNKNOWN

String2StatusCode(s) ==
    IF EqualFold(Chars("OK"), s) THEN OK
    ELSE IF EqualFold(Chars("WARNING"), s) THEN WARNING
    ELSE IF EqualFold(Chars("CRITICAL"), s) THEN CRITICAL
    ELSE UNKNOWN

\* Faulty variants of updateStatusCode, which the properties below reject.
updateStatusCodeNoClamp(current, code) ==
    IF current = CRITICAL THEN current
    ELSE IF code = CRITICAL THEN code
    ELSE IF code > current THEN code ELSE current

updateStatusCodeNotAbsorbing(current, code) ==
    IF code = CRITICAL THEN code
    ELSE LET c == IF code < OK \/ code > UNKNOWN THEN UNKNOWN ELSE code
         IN  IF c > current THEN c ELSE current

updateStatusCodeLastWins(current, code) ==
    IF code < OK \/ code > UNKNOWN THEN UNKNOWN ELSE code

updateStatusCodeNumericMax(current, code) ==
    LET c == IF code < OK \/ code > UNKNOWN THEN UNKNOWN ELSE code
    IN  IF c > current THEN c ELSE current

\* Response.updateStatusCode: the new r.statusCode
updateStatusCode(current, code) ==
    IF current = CRITICAL THEN current
    ELSE IF code = CRITICAL THEN code
    ELSE LET c == IF code < OK \/ code > UNKNOWN THEN UNKNOWN ELSE code
         IN  IF c > current THEN c ELSE current

(***************************************************************************)
(* Thresholds                                                              *)
(***************************************************************************)
\* cmp.Compare on integers
Compare(x, y) == IF x < y THEN -1 ELSE IF x > y THEN 1 ELSE 0

\* the zero value Thresholds[T]{}
EmptyThresholds ==
    [WarningMin |-> 0, WarningMax |-> 0, CriticalMin |-> 0, CriticalMax |-> 0,
     hasWarnMin |-> FALSE, hasWarnMax |-> FALSE,
     hasCritMin |-> FALSE, hasCritMax |-> FALSE]

NewThresholds(warningMin, warningMax, criticalMin, criticalMax) ==
    [WarningMin |-> warningMin, WarningMax |-> warningMax,
     CriticalMin |-> criticalMin, CriticalMax |-> criticalMax,
     hasWarnMin |-> TRUE, hasWarnMax |-> TRUE,
     hasCritMin |-> TRUE, hasCritMax |-> TRUE]

UseWarning(c, useMin, useMax) == [c EXCEPT !.hasWarnMin = useMin, !.hasWarnMax = useMax]

UseCritical(c, useMin, useMax) == [c EXCEPT !.hasCritMin = useMin, !.hasCritMax = useMax]

\* A mutant of ThresholdsValidate: the two ranges are compared before each
\* range is checked on its own.
ThresholdsValidateCrossFirst(c) ==
    IF c.hasCritMin /\ c.hasWarnMin /\ Compare(c.CriticalMin, c.WarningMin) = 1
        THEN "critical and warning min are invalid"
    ELSE IF c.hasWarnMax /\ c.hasCritMax /\ Compare(c.CriticalMax, c.WarningMax) = -1
        THEN "critical and warning max are invalid"
    ELSE IF c.hasWarnMin /\ c.hasWarnMax /\ Compare(c.WarningMin, c.WarningMax) = 1
        THEN "warning min and max are invalid"
    ELSE IF c.hasCritMin /\ c.hasCritMax /\ Compare(c.CriticalMin, c.CriticalMax) = 1
        THEN "critical min and max are invalid"
    ELSE "nil"

\* Thresholds.Validate: the error text, or "nil"
\* A mutant of ThresholdsValidate: the two minima are not compared.
ThresholdsValidateNoMinCheck(c) ==
    IF c.hasWarnMin /\ c.hasWarnMax /\ Compare(c.WarningMin, c.WarningMax) = 1
        THEN "warning min and max are invalid"
    ELSE IF c.hasCritMin /\ c.hasCritMax /\ Compare(c.CriticalMin, c.CriticalMax) = 1
        THEN "critical min and max are invalid"
    ELSE IF c.hasWarnMax /\ c.hasCritMax /\ Compare(c.CriticalMax, c.WarningMax) = -1
        THEN "critical and warning max are invalid"
    ELSE "nil"

ThresholdsValidate(c) ==
    IF c.hasWarnMin /\ c.hasWarnMax /\ Compare(c.WarningMin, c.WarningMax) = 1
        THEN "warning min and max are invalid"
    ELSE IF c.hasCritMin /\ c.hasCritMax /\ Compare(c.CriticalMin, c.CriticalMax) = 1
        THEN "critical min and max are invalid"
    ELSE IF c.hasCritMin /\ c.hasWarnMin /\ Compare(c.CriticalMin, c.WarningMin) = 1
        THEN "critical and warning min are invalid"
    ELSE IF c.hasWarnMax /\ c.hasCritMax /\ Compare(c.CriticalMax, c.WarningMax) = -1
        THEN "critical and warning max are invalid"
    ELSE "nil"

HasWarning(c) == c.hasWarnMax \/ c.hasWarnMin

HasCritical(c) == c.hasCritMax \/ c.hasCritMin

IsEmpty(c) == ~HasWarning(c) /\ ~HasCritical(c)

\* A mutant of CheckValue: a value equal to a bound violates it.
CheckValueNotStrict(c, value) ==
    IF c.hasCritMin /\ Compare(c.CriticalMin, value) >= 0 THEN CRITICAL
    ELSE IF c.hasCritMax /\ Compare(c.CriticalMax, value) <= 0 THEN CRITICAL
    ELSE IF c.hasWarnMin /\ Compare(c.WarningMin, value) >= 0 THEN WARNING
    ELSE IF c.hasWarnMax /\ Compare(c.WarningMax, value) <= 0 THEN WARNING
    ELSE OK

\* Thresholds.CheckValue
CheckValue(c, value) ==
    IF c.hasCritMin /\ Compare(c.CriticalMin, value) = 1 THEN CRITICAL
    ELSE IF c.hasCritMax /\ Compare(c.CriticalMax, value) = -1 THEN CRITICAL
    ELSE IF c.hasWarnMin /\ Compare(c.WarningMin, value) = 1 THEN WARNING
    ELSE IF c.hasWarnMax /\ Compare(c.WarningMax, value) = -1 THEN WARNING
    ELSE OK

(***************************************************************************)
(* PerformanceDataPoint                                                    *)
(***************************************************************************)
\* fmt.Sprint of a number: one token
Sprint(n) == <<ToString(n)>>

\* the characters matched by reInvalidMetricLabel and reInvalidUnit
InvalidMetricLabelChars == {"=", "'"}

InvalidUnitChars == {"0", "1", "2", "3", "4", "5", "6", "7", "8", "9", ";", "'", "\""}

MatchString(chars, s) == \E i \in 1..Len(s) : s[i] \in chars

NewPerformanceDataPoint(metric, value) ==
    [Metric |-> metric, Label |-> << >>, Value |-> value, Unit |-> << >>,
     Thresholds |-> EmptyThresholds, Min |-> 0, Max |-> 0,
     hasMin |-> FALSE, hasMax |-> FALSE]

SetUnit(p, unit) == [p EXCEPT !.Unit = unit]

SetMin(p, min) == [p EXCEPT !.Min = min, !.hasMin = TRUE]

SetMax(p, max) == [p EXCEPT !.Max = max, !.hasMax = TRUE]

SetLabel(p, label) == [p EXCEPT !.Label = label]

SetThresholds(p, thresholds) == [p EXCEPT !.Thresholds = thresholds]

HasThresholds(p) == ~IsEmpty(p.Thresholds)

\* A mutant of PointValidate: min and max are looked at only when the point
\* has both.
PointValidateNeedsBoth(p) ==
    IF p.Metric = << >> THEN <<"data point metric cannot be an empty string">>
    ELSE IF MatchString(InvalidMetricLabelChars, p.Metric)
        THEN <<"metric contains invalid character">>
    ELSE IF MatchString(InvalidMetricLabelChars, p.Label)
        THEN <<"metric contains invalid character">>
    ELSE IF MatchString(InvalidUnitChars, p.Unit)
        THEN <<"unit can not contain numbers, semicolon or quotes">>
    ELSE IF p.hasMin /\ p.hasMax /\ Compare(p.Min, p.Value) = 1
        THEN <<"value cannot be smaller than min">>
    ELSE IF p.hasMin /\ p.hasMax /\ Compare(p.Max, p.Value) = -1
        THEN <<"value cannot be larger than max">>
    ELSE IF p.hasMin /\ p.hasMax /\ Compare(p.Min, p.Max) = 1
        THEN <<"min cannot be larger than max">>
    ELSE IF HasThresholds(p) /\ ThresholdsValidate(p.Thresholds) # "nil"
        THEN <<"thresholds are invalid: ", ThresholdsValidate(p.Thresholds)>>
    ELSE << >>

\* PerformanceDataPoint.Validate: the error (a string), or << >> for nil
PointValidate(p) ==
    IF p.Metric = << >> THEN <<"data point metric cannot be an empty string">>
    ELSE IF MatchString(InvalidMetricLabelChars, p.Metric)
        THEN <<"metric contains invalid character">>
    ELSE IF MatchString(InvalidMetricLabelChars, p.Label)
        THEN <<"metric contains invalid character">>
    ELSE IF MatchString(InvalidUnitChars, p.Unit)
        THEN <<"unit can not contain numbers, semicolon or quotes">>
    ELSE IF p.hasMin /\ Compare(p.Min, p.Value) = 1
        THEN <<"value cannot be smaller than min">>
    ELSE IF p.hasMax /\ Compare(p.Max, p.Value) = -1
        THEN <<"value cannot be larger than max">>
    ELSE IF p.hasMin /\ p.hasMax /\ Compare(p.Min, p.Max) = 1
        THEN <<"min cannot be larger than max">>
    ELSE IF HasThresholds(p) /\ ThresholdsValidate(p.Thresholds) # "nil"
        THEN <<"thresholds are invalid: ", ThresholdsValidate(p.Thresholds)>>
    ELSE << >>

\* PerformanceDataPoint.key
key(p) == <<p.Metric, p.Label>>

\* performanceDataPointKey.String
KeyString(k) == IF k[2] = << >> THEN k[1] ELSE k[1] \o <<" and label ">> \o k[2]

\* PerformanceDataPoint.Name
Name(p) == IF p.Label = << >> THEN p.Metric ELSE p.Metric \o <<" (">> \o p.Label \o <<")">>

\* PerformanceDataPoint.CheckThresholds
PointCheckThresholds(p) == CheckValue(p.Thresholds, p.Value)

\* A mutant of getRange: a min that renders as 0 is dropped also when there
\* is no max.
getRangeDropsZero(min, max, hasMin, hasMax) ==
    IF ~hasMin /\ ~hasMax THEN << >>
    ELSE (IF hasMin
            THEN (IF Sprint(min) # <<"0">> THEN Sprint(min) \o <<":">> ELSE << >>)
            ELSE <<"~", ":">>)
         \o (IF hasMax THEN Sprint(max) ELSE << >>)

\* getRange: the Nagios range of one severity
getRange(min, max, hasMin, hasMax) ==
    IF ~hasMin /\ ~hasMax THEN << >>
    ELSE (IF hasMin
            THEN (IF Sprint(min) # <<"0">> \/ ~hasMax THEN Sprint(min) \o <<":">> ELSE << >>)
            ELSE <<"~", ":">>)
         \o (IF hasMax THEN Sprint(max) ELSE << >>)

getWarning(c) == getRange(c.WarningMin, c.WarningMax, c.hasWarnMin, c.hasWarnMax)

getCritical(c) == getRange(c.CriticalMin, c.CriticalMax, c.hasCritMin, c.hasCritMax)

\* json.Marshal of the key (no character of the model's alphabet is escaped)
KeyJSON(p) ==
    <<"{", "\"metric\":", "\"">> \o p.Metric \o <<"\"">>
    \o (IF p.Label # << >> THEN <<",", "\"label\":", "\"">> \o p.Label \o <<"\"">> ELSE << >>)
    \o <<"}">>

\* PerformanceDataPoint.output
PointOutput(p, jsonLabel) ==
    <<"'">>
    \o (IF jsonLabel THEN KeyJSON(p)
        ELSE p.Metric \o (IF p.Label # << >> THEN <<"_">> \o p.Label ELSE << >>))
    \o <<"'", "=">> \o Sprint(p.Value) \o p.Unit
    \o (IF HasThresholds(p) \/ p.hasMax \/ p.hasMin
        THEN <<";">> \o (IF HasWarning(p.Thresholds) THEN getWarning(p.Thresholds) ELSE << >>)
             \o <<";">> \o (IF HasCritical(p.Thresholds) THEN getCritical(p.Thresholds) ELSE << >>)
             \o <<";">> \o (IF p.hasMin THEN Sprint(p.Min) ELSE << >>)
             \o <<";">> \o (IF p.hasMax THEN Sprint(p.Max) ELSE << >>)
        ELSE << >>)

(***************************************************************************)
(* performanceData: the store                                              *)
(***************************************************************************)
\* A mutant of add: the uniqueness check looks at the metric only.
addMetricOnly(pts, ks, hp, addr) ==
    LET point == hp[addr]
        verr == PointValidate(point)
        k == key(point)
    IN  IF verr # << >>
            THEN [err |-> <<"given performance data point is not valid: ">> \o verr,
                  points |-> pts, keys |-> ks]
        ELSE IF \E q \in DOMAIN ks : q[1] = k[1]
            THEN [err |-> <<"a performance data point with the metric '">> \o KeyString(k)
                          \o <<"' does already exist">>,
                  points |-> pts, keys |-> ks]
        ELSE [err |-> << >>, points |-> Append(pts, addr), keys |-> ks @@ (k :> Len(pts))]

\* A mutant of add: a new point is put in front of the others.
addInFront(pts, ks, hp, addr) ==
    LET point == hp[addr]
        verr == PointValidate(point)
        k == key(point)
    IN  IF verr # << >>
            THEN [err |-> <<"given performance data point is not valid: ">> \o verr,
                  points |-> pts, keys |-> ks]
        ELSE IF k \in DOMAIN ks
            THEN [err |-> <<"a performance data point with the metric '">> \o KeyString(k)
                          \o <<"' does already exist">>,
                  points |-> pts, keys |-> ks]
        ELSE [err |-> << >>, points |-> <<addr>> \o pts, keys |-> ks @@ (k :> Len(pts))]

\* performanceData.add of the point at address addr: the error (<< >> for
\* nil) and the store's fields after the call
add(pts, ks, hp, addr) ==
    LET point == hp[addr]
        verr == PointValidate(point)
        k == key(point)
    IN  IF verr # << >>
            THEN [err |-> <<"given performance data point is not valid: ">> \o verr,
                  points |-> pts, keys |-> ks]
        ELSE IF k \in DOMAIN ks
            THEN [err |-> <<"a performance data point with the metric '">> \o KeyString(k)
                          \o <<"' does already exist">>,
                  points |-> pts, keys |-> ks]
        ELSE [err |-> << >>, points |-> Append(pts, addr), keys |-> ks @@ (k :> Len(pts))]

\* performanceData.getInfo: the stored points, in the store's order
getInfo(pts, hp) == [i \in 1..Len(pts) |-> hp[pts[i]]]

(***************************************************************************)
(* Response: the operations as functions of the fields they read           *)
(***************************************************************************)
\* A mutant of UpdateStatusFields: the message is stored with the merged status.
UpdateStatusFieldsStoresMerged(status, msgs, code, message) ==
    [statusCode |-> updateStatusCode(status, code),
     outputMessages |-> IF message # << >>
                        THEN Append(msgs, [Status |-> updateStatusCode(status, code),
                                           Message |-> message])
                        ELSE msgs]

\* A mutant of UpdateStatusFields: a call with a message stores the message
\* and leaves the status code alone.
UpdateStatusFieldsMessageOnly(status, msgs, code, message) ==
    IF message # << >>
    THEN [statusCode |-> status,
          outputMessages |-> Append(msgs, [Status |-> code, Message |-> message])]
    ELSE [statusCode |-> updateStatusCode(status, code), outputMessages |-> msgs]

\* Response.UpdateStatus: r.statusCode and r.outputMessages after the call
UpdateStatusFields(status, msgs, code, message) ==
    [statusCode |-> updateStatusCode(status, code),
     outputMessages |-> IF message # << >>
                        THEN Append(msgs, [Status |-> code, Message |-> message])
                        ELSE msgs]

\* A mutant of CheckThresholdsFields: a violated threshold is reported as UNKNOWN.
CheckThresholdsFieldsUnknown(status, msgs, point) ==
    LET res == PointCheckThresholds(point)
    IN  IF res # OK
        THEN UpdateStatusFields(status, msgs, UNKNOWN,
                 Name(point) \o <<" is outside of ", StatusCode2Text(res), " threshold">>)
        ELSE [statusCode |-> status, outputMessages |-> msgs]

\* Response.CheckThresholds(point)
CheckThresholdsFields(status, msgs, point) ==
    LET res == PointCheckThresholds(point)
    IN  IF res # OK
        THEN UpdateStatusFields(status, msgs, res,
                 Name(point) \o <<" is outside of ", StatusCode2Text(res), " threshold">>)
        ELSE [statusCode |-> status, outputMessages |-> msgs]

\* A mutant of MessageCmp: the statuses are compared as numbers only.
MessageCmpNumeric(a, b) == Compare(b.Status, a.Status)

\* the comparison function of sortMessagesByStatus
MessageCmp(a, b) ==
    IF a.Status = CRITICAL /\ b.Status # CRITICAL THEN -1
    ELSE IF a.Status # CRITICAL /\ b.Status = CRITICAL THEN 1
    ELSE Compare(b.Status, a.Status)

RECURSIVE InsertMessage(_, _)
\* one pass of the insertion sort slices.SortStableFunc does on a short slice:
\* the new element moves left while it compares less than its neighbour
InsertMessage(sorted, x) ==
    IF sorted = << >> \/ ~(MessageCmp(x, sorted[Len(sorted)]) < 0)
    THEN Append(sorted, x)
    ELSE Append(InsertMessage(SubSeq(sorted, 1, Len(sorted) - 1), x), sorted[Len(sorted)])

RECURSIVE SortFrom(_, _, _)
SortFrom(msgs, i, sorted) ==
    IF i > Len(msgs) THEN sorted ELSE SortFrom(msgs, i + 1, InsertMessage(sorted, msgs[i]))

\* Response.sortMessagesByStatus
sortMessagesByStatus(msgs) == SortFrom(msgs, 1, << >>)

RECURSIVE ValidateFrom(_, _, _, _, _, _)
\* the loop of validateMessages from message i on: messages is the slice
\* built so far, status is r.statusCode
ValidateFrom(msgs, i, messages, status, behaviour, replaceChar) ==
    IF i > Len(msgs) THEN [statusCode |-> status, outputMessages |-> messages]
    ELSE LET message == msgs[i] IN
        IF ~Contains(message.Message, Pipe)
            THEN ValidateFrom(msgs, i + 1, Append(messages, message), status,
                              behaviour, replaceChar)
        ELSE IF behaviour = InvalidCharacterReplace
            THEN LET newMessage == ReplaceAll(message.Message, Pipe, replaceChar)
                 IN  ValidateFrom(msgs, i + 1,
                         IF newMessage # << >>
                         THEN Append(messages, [Status |-> message.Status,
                                                Message |-> newMessage])
                         ELSE messages,
                         status, behaviour, replaceChar)
        ELSE IF behaviour = InvalidCharacterRemoveMessage
            THEN ValidateFrom(msgs, i + 1, messages, status, behaviour, replaceChar)
        ELSE IF behaviour = InvalidCharacterReplaceWithErrorAndSetUNKNOWN
            THEN [statusCode |-> UNKNOWN,
                  outputMessages |-> <<[Status |-> UNKNOWN, Message |-> MessageInvalidText]>>]
        ELSE IF behaviour = InvalidCharacterReplaceWithError
            THEN [statusCode |-> status,
                  outputMessages |-> <<[Status |-> message.Status,
                                        Message |-> MessageInvalidText]>>]
        ELSE LET newMessage == ReplaceAll(message.Message, Pipe, << >>)
             IN  ValidateFrom(msgs, i + 1,
                     IF newMessage # << >>
                     THEN Append(messages, [Status |-> message.Status,
                                            Message |-> newMessage])
                     ELSE messages,
                     status, behaviour, replaceChar)

\* A mutant of validateMessages: when a message was removed the status is
\* taken from the messages that are left.
validateMessagesForgetsRemoved(status, msgs, behaviour, replaceChar) ==
    LET v == ValidateFrom(msgs, 1, << >>, status, behaviour, replaceChar)
    IN  [statusCode |-> IF behaviour = InvalidCharacterRemoveMessage
                           /\ Len(v.outputMessages) < Len(msgs)
                        THEN IF \E i \in 1..Len(v.outputMessages) :
                                    v.outputMessages[i].Status = status
                             THEN status ELSE OK
                        ELSE v.statusCode,
         outputMessages |-> v.outputMessages]

\* A mutant of validateMessages: under the two error policies each offending
\* message is replaced by the error text and the others are kept.
validateMessagesErrorPerMessage(status, msgs, behaviour, replaceChar) ==
    IF behaviour \in {InvalidCharacterReplaceWithError,
                      InvalidCharacterReplaceWithErrorAndSetUNKNOWN}
    THEN [statusCode |-> IF behaviour = InvalidCharacterReplaceWithErrorAndSetUNKNOWN
                            /\ \E i \in 1..Len(msgs) : Contains(msgs[i].Message, Pipe)
                         THEN UNKNOWN ELSE status,
          outputMessages |-> [i \in 1..Len(msgs) |->
                                  IF Contains(msgs[i].Message, Pipe)
                                  THEN [Status |-> msgs[i].Status,
                                        Message |-> MessageInvalidText]
                                  ELSE msgs[i]]]
    ELSE ValidateFrom(msgs, 1, << >>, status, behaviour, replaceChar)

\* A mutant of validateMessages: under InvalidCharacterRemoveMessage the loop
\* ends at the first message with a '|'.
validateMessagesStopsAtRemoved(status, msgs, behaviour, replaceChar) ==
    IF /\ behaviour = InvalidCharacterRemoveMessage
       /\ \E i \in 1..Len(msgs) : Contains(msgs[i].Message, Pipe)
    THEN [statusCode |-> status,
          outputMessages |->
              SubSeq(msgs, 1, (CHOOSE i \in 1..Len(msgs) :
                                   /\ Contains(msgs[i].Message, Pipe)
                                   /\ \A j \in 1..(i - 1) : ~Contains(msgs[j].Message, Pipe)) - 1)]
    ELSE ValidateFrom(msgs, 1, << >>, status, behaviour, replaceChar)

\* Response.validateMessages: r.statusCode and r.outputMessages after the call
validateMessages(status, msgs, behaviour, replaceChar) ==
    ValidateFrom(msgs, 1, << >>, status, behaviour, replaceChar)

\* Response.validate: the three fields it writes, after the call
validate(status, default, msgs, behaviour, replaceChar, sort) ==
    LET hit == Contains(default, Pipe)
        newDefault ==
            IF ~hit THEN default
            ELSE IF behaviour = InvalidCharacterReplace
                THEN ReplaceAll(default, Pipe, replaceChar)
            ELSE IF behaviour = InvalidCharacterRemoveMessage THEN << >>
            ELSE IF behaviour = InvalidCharacterReplaceWithError THEN DefaultInvalidText
            ELSE IF behaviour = InvalidCharacterReplaceWithErrorAndSetUNKNOWN THEN default
            ELSE ReplaceAll(default, Pipe, << >>)
    IN  IF hit /\ behaviour = InvalidCharacterReplaceWithErrorAndSetUNKNOWN
        THEN [statusCode |-> UNKNOWN, defaultOkMessage |-> default, outputMessages |-> << >>]
        ELSE LET v == validateMessages(status, msgs, behaviour, replaceChar)
             IN  [statusCode |-> v.statusCode,
                  defaultOkMessage |-> newDefault,
                  outputMessages |-> IF sort THEN sortMessagesByStatus(v.outputMessages)
                                     ELSE v.outputMessages]

\* the Message fields of a message list
MessageTexts(msgs) == [i \in 1..Len(msgs) |-> msgs[i].Message]

\* A mutant of output: the default OK message is written for every status.
outputDefaultAlways(status, default, msgs, delimiter, print, jsonLabel, pts) ==
    <<StatusCode2Text(status), ": ">>
    \o default \o (IF Len(msgs) > 0 THEN delimiter ELSE << >>)
    \o Join(MessageTexts(msgs), delimiter)
    \o (IF print /\ Len(pts) > 0
        THEN <<" | ">> \o Join([i \in 1..Len(pts) |-> PointOutput(pts[i], jsonLabel)], <<" ">>)
        ELSE << >>)

\* A mutant of output: the performance data is written whether or not
\* printing is enabled.
outputIgnoresPrintFlag(status, default, msgs, delimiter, print, jsonLabel, pts) ==
    <<StatusCode2Text(status), ": ">>
    \o (IF status = OK
        THEN default \o (IF Len(msgs) > 0 THEN delimiter ELSE << >>)
        ELSE << >>)
    \o Join(MessageTexts(msgs), delimiter)
    \o (IF Len(pts) > 0
        THEN <<" | ">> \o Join([i \in 1..Len(pts) |-> PointOutput(pts[i], jsonLabel)], <<" ">>)
        ELSE << >>)

\* Response.output: the rendered text
output(status, default, msgs, delimiter, print, jsonLabel, pts) ==
    <<StatusCode2Text(status), ": ">>
    \o (IF status = OK
        THEN default \o (IF Len(msgs) > 0 THEN delimiter ELSE << >>)
        ELSE << >>)
    \o Join(MessageTexts(msgs), delimiter)
    \o (IF print /\ Len(pts) > 0
        THEN <<" | ">> \o Join([i \in 1..Len(pts) |-> PointOutput(pts[i], jsonLabel)], <<" ">>)
        ELSE << >>)

(***************************************************************************)
(* The inputs the callers choose from.                                     *)
(***************************************************************************)
BOOL == {TRUE, FALSE}

\* status arguments: the four codes and one integer on either side of them
StatusArgs == (OK - 1)..(UNKNOWN + 1)

Messages == {<< >>, <<"a">>, <<"|">>, <<"a", "|", "b">>}

DefaultMessages == {<<"d">>, <<"|", "d">>}

ReplaceChars == {<< >>, <<"x">>, <<"|">>}

Delimiters == {Newline, <<" / ">>}

Behaviors == (InvalidCharacterRemove - 1)..(InvalidCharacterReplaceWithErrorAndSetUNKNOWN + 1)

\* error arguments: nil, an error with a text, an error with an empty text
Errors == {[isNil |-> TRUE, text |-> << >>], [isNil |-> FALSE, text |-> <<"e">>],
           [isNil |-> FALSE, text |-> << >>]}

\* UpdateStatus arguments of the whole-Response specification: every status
\* argument without a message, and two messages
UpdateInputs ==
    {<<code, << >> >> : code \in StatusArgs}
        \cup {<<UNKNOWN + 1, <<"a">> >>, <<WARNING, <<"a", "|">> >>}

\* the replacement strings of the whole-Response specification
FewReplaceChars == {<< >>, <<"x">>}

\* data points: without thresholds, inside them (with a label), outside the
\* warning range, outside the critical range (with a '|' in the metric)
PlainPoint == NewPerformanceDataPoint(<<"m">>, 1)

InsidePoint ==
    SetThresholds(SetLabel(NewPerformanceDataPoint(<<"m">>, 1), <<"l">>),
                  NewThresholds(0, 2, 0, 2))

WarningPoint ==
    SetThresholds(NewPerformanceDataPoint(<<"w">>, 1),
                  UseCritical(NewThresholds(0, 0, 0, 0), FALSE, FALSE))

CriticalPoint ==
    SetThresholds(NewPerformanceDataPoint(<<"c", "|">>, 2), NewThresholds(0, 1, 0, 1))

\* a point that does not pass Validate
InvalidPoint == SetMax(NewPerformanceDataPoint(<<"m">>, 1), 0)

\* the data points handed to a Response in the whole-Response specification
PointInputs == {PlainPoint, WarningPoint, CriticalPoint, InvalidPoint}

(***************************************************************************)
(* The state after NewResponse(defaultOkMessage).                          *)
(***************************************************************************)
storeVars == <<heap, points, keys>>
configVars == <<outputDelimiter, performanceDataJSONLabel, printPerformanceData,
                sortOutputMessagesByStatus, invalidCharacterBehaviour,
                invalidCharacterReplaceChar>>

NewResponse(default) ==
    /\ statusCode = OK
    /\ defaultOkMessage = default
    /\ outputMessages = << >>
    /\ heap = << >>
    /\ points = << >>
    /\ keys = << >>
    /\ outputDelimiter = Newline
    /\ performanceDataJSONLabel = FALSE
    /\ printPerformanceData = TRUE
    /\ sortOutputMessagesByStatus = TRUE
    /\ invalidCharacterBehaviour = InvalidCharacterRemove
    /\ invalidCharacterReplaceChar = << >>

Init ==
    /\ \E default \in DefaultMessages : NewResponse(default)
    /\ th = EmptyThresholds
    /\ ret = [op |-> "NewResponse"]
    /\ calls = << >>

\* A mutant of Running: calls go on after os.Exit.
RunningAfterExit == TRUE

\* os.Exit has not been called
Running == ret.op # "OutputAndExit"

(***************************************************************************)
(* Response: the operations.  An action writes the fields of the Response; *)
(* what the call returns is the operator named ...Result or ...Error, read *)
(* in the state before the call.  A specification records it in ret.       *)
(***************************************************************************)
UpdateStatus(code, message) ==
    /\ Running
    /\ LET u == UpdateStatusFields(statusCode, outputMessages, code, message)
       IN  /\ statusCode' = u.statusCode
           /\ outputMessages' = u.outputMessages
    /\ UNCHANGED <<defaultOkMessage, storeVars, configVars>>

UpdateStatusIf(condition, code, message) ==
    /\ Running
    /\ LET u == IF condition
                THEN UpdateStatusFields(statusCode, outputMessages, code, message)
                ELSE [statusCode |-> statusCode, outputMessages |-> outputMessages]
       IN  /\ statusCode' = u.statusCode
           /\ outputMessages' = u.outputMessages
    /\ UNCHANGED <<defaultOkMessage, storeVars, configVars>>

UpdateStatusIfResult(condition) == condition

\* A mutant of UpdateStatusIfNot: the update is made when the condition holds.
UpdateStatusIfNotInverted(condition, code, message) ==
    /\ Running
    /\ LET u == IF condition
                THEN UpdateStatusFields(statusCode, outputMessages, code, message)
                ELSE [statusCode |-> statusCode, outputMessages |-> outputMessages]
       IN  /\ statusCode' = u.statusCode
           /\ outputMessages' = u.outputMessages
    /\ UNCHANGED <<defaultOkMessage, storeVars, configVars>>

UpdateStatusIfNot(condition, code, message) ==
    /\ Running
    /\ LET u == IF ~condition
                THEN UpdateStatusFields(statusCode, outputMessages, code, message)
                ELSE [statusCode |-> statusCode, outputMessages |-> outputMessages]
       IN  /\ statusCode' = u.statusCode
           /\ outputMessages' = u.outputMessages
    /\ UNCHANGED <<defaultOkMessage, storeVars, configVars>>

UpdateStatusIfNotResult(condition) == ~condition

UpdateStatusOnError(err, code, message, includeErrorMessage) ==
    /\ Running
    /\ LET x == ~err.isNil
           msg == IF ~includeErrorMessage THEN message
                  ELSE IF message # << >>
                       THEN message \o <<" (error: ">> \o err.text \o <<")">>
                       ELSE err.text
           u == IF x THEN UpdateStatusFields(statusCode, outputMessages, code, msg)
                ELSE [statusCode |-> statusCode, outputMessages |-> outputMessages]
       IN  /\ statusCode' = u.statusCode
           /\ outputMessages' = u.outputMessages
    /\ UNCHANGED <<defaultOkMessage, storeVars, configVars>>

UpdateStatusOnErrorResult(err) == ~err.isNil

\* AddPerformanceDataPoint of a point the caller has just built: the point
\* gets the next address; a point the store refuses is dropped by the caller
\* A mutant of AddPerformanceDataPoint: the thresholds are checked before the
\* point is added.
AddPerformanceDataPointChecksFirst(point) ==
    /\ Running
    /\ LET addr == Len(heap) + 1
           hp == Append(heap, point)
           a == add(points, keys, hp, addr)
           c == IF HasThresholds(point)
                THEN CheckThresholdsFields(statusCode, outputMessages, point)
                ELSE [statusCode |-> statusCode, outputMessages |-> outputMessages]
       IN  /\ statusCode' = c.statusCode
           /\ outputMessages' = c.outputMessages
           /\ IF a.err # << >>
              THEN UNCHANGED storeVars
              ELSE heap' = hp /\ points' = a.points /\ keys' = a.keys
    /\ UNCHANGED <<defaultOkMessage, configVars>>

AddPerformanceDataPoint(point) ==
    /\ Running
    /\ LET addr == Len(heap) + 1
           hp == Append(heap, point)
           a == add(points, keys, hp, addr)
           c == IF HasThresholds(point)
                THEN CheckThresholdsFields(statusCode, outputMessages, point)
                ELSE [statusCode |-> statusCode, outputMessages |-> outputMessages]
       IN  IF a.err # << >>
           THEN UNCHANGED <<statusCode, outputMessages, storeVars>>
           ELSE /\ heap' = hp
                /\ points' = a.points
                /\ keys' = a.keys
                /\ statusCode' = c.statusCode
                /\ outputMessages' = c.outputMessages
    /\ UNCHANGED <<defaultOkMessage, configVars>>

\* the error AddPerformanceDataPoint(point) returns (<< >> for nil)
AddPerformanceDataPointError(point) ==
    LET a == add(points, keys, Append(heap, point), Len(heap) + 1)
    IN  IF a.err # << >>
        THEN <<"failed to add performance data point: ">> \o a.err
        ELSE << >>

\* Response.CheckThresholds of a point of the caller
CheckThresholds(point) ==
    /\ Running
    /\ LET c == CheckThresholdsFields(statusCode, outputMessages, point)
       IN  /\ statusCode' = c.statusCode
           /\ outputMessages' = c.outputMessages
    /\ UNCHANGED <<defaultOkMessage, storeVars, configVars>>

GetStatusCode ==
    /\ Running
    /\ UNCHANGED respVars

GetStatusCodeResult == statusCode

WithDefaultOkMessage(default) ==
    /\ Running
    /\ defaultOkMessage' = default
    /\ UNCHANGED <<statusCode, outputMessages, storeVars, configVars>>

SetPerformanceDataJSONLabel(jsonLabel) ==
    /\ Running
    /\ performanceDataJSONLabel' = jsonLabel
    /\ UNCHANGED <<statusCode, defaultOkMessage, outputMessages, storeVars, outputDelimiter,
                   printPerformanceData, sortOutputMessagesByStatus,
                   invalidCharacterBehaviour, invalidCharacterReplaceChar>>

\* the error SetInvalidCharacterBehavior returns (<< >> for nil)
SetInvalidCharacterBehaviorError(behavior, replaceCharacter) ==
    IF behavior = InvalidCharacterReplace
    THEN IF replaceCharacter = << >> THEN <<"empty replace character set">> ELSE << >>
    ELSE IF behavior \in {InvalidCharacterRemove, InvalidCharacterRemoveMessage,
                          InvalidCharacterReplaceWithError,
                          InvalidCharacterReplaceWithErrorAndSetUNKNOWN}
         THEN << >>
         ELSE <<"unknown behavior">>

\* A mutant of SetInvalidCharacterBehavior: the policy is stored before the
\* replacement string is looked at.
SetInvalidCharacterBehaviorStoresFirst(behavior, replaceCharacter) ==
    /\ Running
    /\ IF behavior = InvalidCharacterReplace
       THEN /\ invalidCharacterBehaviour' = behavior
            /\ IF replaceCharacter = << >>
               THEN UNCHANGED invalidCharacterReplaceChar
               ELSE invalidCharacterReplaceChar' = replaceCharacter
       ELSE IF behavior \in {InvalidCharacterRemove, InvalidCharacterRemoveMessage,
                             InvalidCharacterReplaceWithError,
                             InvalidCharacterReplaceWithErrorAndSetUNKNOWN}
            THEN /\ invalidCharacterBehaviour' = behavior
                 /\ UNCHANGED invalidCharacterReplaceChar
            ELSE UNCHANGED <<invalidCharacterBehaviour, invalidCharacterReplaceChar>>
    /\ UNCHANGED <<statusCode, defaultOkMessage, outputMessages, storeVars, outputDelimiter,
                   performanceDataJSONLabel, printPerformanceData,
                   sortOutputMessagesByStatus>>

SetInvalidCharacterBehavior(behavior, replaceCharacter) ==
    /\ Running
    /\ IF behavior = InvalidCharacterReplace
       THEN IF replaceCharacter = << >>
            THEN UNCHANGED <<invalidCharacterBehaviour, invalidCharacterReplaceChar>>
            ELSE /\ invalidCharacterReplaceChar' = replaceCharacter
                 /\ invalidCharacterBehaviour' = behavior
       ELSE IF behavior \in {InvalidCharacterRemove, InvalidCharacterRemoveMessage,
                             InvalidCharacterReplaceWithError,
                             InvalidCharacterReplaceWithErrorAndSetUNKNOWN}
            THEN /\ invalidCharacterBehaviour' = behavior
                 /\ UNCHANGED invalidCharacterReplaceChar
            ELSE UNCHANGED <<invalidCharacterBehaviour, invalidCharacterReplaceChar>>
    /\ UNCHANGED <<statusCode, defaultOkMessage, outputMessages, storeVars, outputDelimiter,
                   performanceDataJSONLabel, printPerformanceData,
                   sortOutputMessagesByStatus>>

SetOutputDelimiter(delimiter) ==
    /\ Running
    /\ outputDelimiter' = delimiter
    /\ UNCHANGED <<statusCode, defaultOkMessage, outputMessages, storeVars,
                   performanceDataJSONLabel, printPerformanceData,
                   sortOutputMessagesByStatus, invalidCharacterBehaviour,
                   invalidCharacterReplaceChar>>

OutputDelimiterMultiline ==
    /\ Running
    /\ outputDelimiter' = Newline
    /\ UNCHANGED <<statusCode, defaultOkMessage, outputMessages, storeVars,
                   performanceDataJSONLabel, printPerformanceData,
                   sortOutputMessagesByStatus, invalidCharacterBehaviour,
                   invalidCharacterReplaceChar>>

PrintPerformanceData(b) ==
    /\ Running
    /\ printPerformanceData' = b
    /\ UNCHANGED <<statusCode, defaultOkMessage, outputMessages, storeVars, outputDelimiter,
                   performanceDataJSONLabel, sortOutputMessagesByStatus,
                   invalidCharacterBehaviour, invalidCharacterReplaceChar>>

SortOutputMessagesByStatus(b) ==
    /\ Running
    /\ sortOutputMessagesByStatus' = b
    /\ UNCHANGED <<statusCode, defaultOkMessage, outputMessages, storeVars, outputDelimiter,
                   performanceDataJSONLabel, printPerformanceData,
                   invalidCharacterBehaviour, invalidCharacterReplaceChar>>

\* the fields r.validate() writes, after the call
Validated ==
    validate(statusCode, defaultOkMessage, outputMessages, invalidCharacterBehaviour,
             invalidCharacterReplaceChar, sortOutputMessagesByStatus)

\* r.outputString() once the fields are v
Rendered(v) ==
    output(v.statusCode, v.defaultOkMessage, v.outputMessages, outputDelimiter,
           printPerformanceData, performanceDataJSONLabel, getInfo(points, heap))

\* GetInfo and OutputAndExit both start with r.validate()
GetInfo ==
    /\ Running
    /\ LET v == Validated
       IN  /\ statusCode' = v.statusCode
           /\ defaultOkMessage' = v.defaultOkMessage
           /\ outputMessages' = v.outputMessages
    /\ UNCHANGED <<storeVars, configVars>>

\* the ResponseInfo GetInfo returns
GetInfoResult ==
    LET v == Validated
    IN  [op |-> "GetInfo",
         RawOutput |-> Rendered(v),
         StatusCode |-> v.statusCode,
         PerformanceData |-> getInfo(points, heap),
         Messages |-> v.outputMessages]

OutputAndExit ==
    /\ Running
    /\ LET v == Validated
       IN  /\ statusCode' = v.statusCode
           /\ defaultOkMessage' = v.defaultOkMessage
           /\ outputMessages' = v.outputMessages
    /\ UNCHANGED <<storeVars, configVars>>

\* what OutputAndExit prints and the code the process exits with
OutputAndExitResult ==
    LET v == Validated
    IN  [op |-> "OutputAndExit", stdout |-> Rendered(v) \o Newline, exitCode |-> v.statusCode]

(***************************************************************************)
(* Spec: every operation of a Response, on small inputs.  Of the results   *)
(* it keeps those of the two finalizing calls.                             *)
(***************************************************************************)
\* what bounds the model: the stored messages and the points handed over
Bounded == Len(outputMessages') <= MaxMsgs /\ Len(heap') <= MaxPoints

\* a call whose result the caller drops
Dropped == ret' = [op |-> "call"] /\ UNCHANGED <<th, calls>>

Next ==
    \/ \E in \in UpdateInputs : UpdateStatus(in[1], in[2]) /\ Bounded /\ Dropped
    \/ \E condition \in BOOL :
           UpdateStatusIf(condition, UNKNOWN + 1, <<"a">>) /\ Bounded /\ Dropped
    \/ \E condition \in BOOL :
           UpdateStatusIfNot(condition, WARNING, <<"a", "|">>) /\ Bounded /\ Dropped
    \/ \E err \in Errors, include \in BOOL :
           UpdateStatusOnError(err, UNKNOWN, << >>, include) /\ Bounded /\ Dropped
    \/ \E point \in PointInputs : AddPerformanceDataPoint(point) /\ Bounded /\ Dropped
    \/ \E point \in {WarningPoint, CriticalPoint} :
           CheckThresholds(point) /\ Bounded /\ Dropped
    \/ GetStatusCode /\ Dropped
    \/ \E default \in DefaultMessages : WithDefaultOkMessage(default) /\ Dropped
    \/ \E jsonLabel \in BOOL : SetPerformanceDataJSONLabel(jsonLabel) /\ Dropped
    \/ \E behavior \in Behaviors, replaceCharacter \in FewReplaceChars :
           SetInvalidCharacterBehavior(behavior, replaceCharacter) /\ Dropped
    \/ \E delimiter \in Delimiters : SetOutputDelimiter(delimiter) /\ Dropped
    \/ OutputDelimiterMultiline /\ Dropped
    \/ \E b \in BOOL : PrintPerformanceData(b) /\ Dropped
    \/ \E b \in BOOL : SortOutputMessagesByStatus(b) /\ Dropped
    \/ GetInfo /\ ret' = GetInfoResult /\ UNCHANGED <<th, calls>>
    \/ OutputAndExit /\ ret' = OutputAndExitResult /\ UNCHANGED <<th, calls>>

Spec == Init /\ [][Next]_vars

(***************************************************************************)
(* SpecStatus: sequences of UpdateStatus calls on a new Response, with     *)
(* every status argument; calls records the arguments.                     *)
(***************************************************************************)
NextStatus ==
    \E code \in StatusArgs, message \in {<< >>, <<"a">>} :
        /\ Len(calls) < MaxCalls
        /\ UpdateStatus(code, message)
        /\ calls' = Append(calls, [op |-> "UpdateStatus", code |-> code, message |-> message])
        /\ ret' = [op |-> "call"]
        /\ UNCHANGED th

SpecStatus == Init /\ [][NextStatus]_vars

\* the status arguments of the recorded calls
Codes == [i \in 1..Len(calls) |-> calls[i].code]

\* a status argument with every value outside 0..3 mapped to UNKNOWN
Clamped(code) == IF code \in OK..UNKNOWN THEN code ELSE UNKNOWN

Largest(S) == CHOOSE x \in S : \A y \in S : y <= x

\* C1: after any sequence of UpdateStatus calls on a new Response the status
\* is CRITICAL if some argument was CRITICAL, and otherwise the largest of OK
\* and the arguments, each argument outside 0..3 counting as UNKNOWN.
C1_StatusIsMerge ==
    statusCode = IF \E i \in 1..Len(calls) : Codes[i] = CRITICAL
                 THEN CRITICAL
                 ELSE Largest({OK} \cup {Clamped(Codes[i]) : i \in 1..Len(calls)})

\* an out-of-range argument, then CRITICAL, then UNKNOWN: the status is CRITICAL
C1_Witness ==
    /\ Len(calls) = 3
    /\ Codes = <<UNKNOWN + 1, CRITICAL, UNKNOWN>>
    /\ statusCode = CRITICAL

RECURSIVE MergeAll(_, _)
\* the status after UpdateStatus with each of codes in turn, starting at current
MergeAll(codes, current) ==
    IF codes = << >> THEN current
    ELSE MergeAll(Tail(codes), updateStatusCode(current, Head(codes)))

\* C4: the merge is idempotent and order-independent: a call whose argument
\* equals the current status leaves the status as it is, and every
\* permutation of the recorded calls ends in the status the Response has.
C4_IdempotentOrderIndependent ==
    /\ \A p \in Permutations(1..Len(calls)) :
           MergeAll([i \in 1..Len(calls) |-> Codes[p[i]]], OK) = statusCode
    /\ \A i \in 1..Len(calls) :
           Codes[i] = MergeAll(SubSeq(Codes, 1, i - 1), OK)
               => MergeAll(SubSeq(Codes, 1, i), OK) = Codes[i]

\* UNKNOWN before CRITICAL and a repeated CRITICAL: the status is CRITICAL,
\* as it is for CRITICAL before UNKNOWN
C4_Witness ==
    /\ Codes = <<UNKNOWN, CRITICAL, CRITICAL>>
    /\ statusCode = CRITICAL
    /\ MergeAll(<<CRITICAL, UNKNOWN, CRITICAL>>, OK) = CRITICAL

(***************************************************************************)
(* SpecThresholds: a Thresholds value of the caller, built by              *)
(* NewThresholds or left at its zero value, its bounds switched on and off *)
(* by UseWarning and UseCritical, and Validate and CheckValue applied.     *)
(***************************************************************************)
Bounds == 0..MaxBound

\* the values handed to CheckValue: every bound and one value on either side
Values == (-1)..(MaxBound + 1)

InitThresholds ==
    /\ NewResponse(<<"d">>)
    /\ th \in {EmptyThresholds}
              \cup {NewThresholds(a, b, c, d) : a \in Bounds, b \in Bounds,
                                                c \in Bounds, d \in Bounds}
    /\ ret = [op |-> "NewThresholds"]
    /\ calls = << >>

Thresholds_UseWarning(useMin, useMax) ==
    /\ th' = UseWarning(th, useMin, useMax)
    /\ ret' = [op |-> "UseWarning"]
    /\ UNCHANGED <<respVars, calls>>

Thresholds_UseCritical(useMin, useMax) ==
    /\ th' = UseCritical(th, useMin, useMax)
    /\ ret' = [op |-> "UseCritical"]
    /\ UNCHANGED <<respVars, calls>>

Thresholds_Validate ==
    /\ ret' = [op |-> "Validate", err |-> ThresholdsValidate(th)]
    /\ UNCHANGED <<respVars, th, calls>>

Thresholds_CheckValue(value) ==
    /\ ret' = [op |-> "CheckValue", value |-> value, result |-> CheckValue(th, value)]
    /\ UNCHANGED <<respVars, th, calls>>

NextThresholds ==
    \/ \E useMin \in BOOL, useMax \in BOOL : Thresholds_UseWarning(useMin, useMax)
    \/ \E useMin \in BOOL, useMax \in BOOL : Thresholds_UseCritical(useMin, useMax)
    \/ Thresholds_Validate
    \/ \E value \in Values : Thresholds_CheckValue(value)

SpecThresholds == InitThresholds /\ [][NextThresholds]_vars

\* C5: CheckValue(v) is CRITICAL iff a present critical bound is strictly
\* violated, otherwise WARNING iff a present warning bound is strictly
\* violated, otherwise OK; a value equal to a bound is not flagged by it, an
\* absent bound never triggers, and without bounds the result is OK.
C5_CheckValue ==
    ret.op = "CheckValue" =>
        LET v == ret.value
            critical == \/ th.hasCritMin /\ v < th.CriticalMin
                        \/ th.hasCritMax /\ v > th.CriticalMax
            warning == \/ th.hasWarnMin /\ v < th.WarningMin
                       \/ th.hasWarnMax /\ v > th.WarningMax
        IN  /\ (ret.result = CRITICAL) <=> critical
            /\ (ret.result = WARNING) <=> (~critical /\ warning)
            /\ (ret.result = OK) <=> (~critical /\ ~warning)
            /\ ret.result \in {OK, WARNING, CRITICAL}
            /\ IsEmpty(th) => ret.result = OK

\* a value on the critical maximum and above the warning maximum, the two
\* minima absent and above the value: WARNING
C5_Witness ==
    /\ ret.op = "CheckValue"
    /\ th.hasCritMax /\ ret.value = th.CriticalMax
    /\ th.hasWarnMax /\ ret.value > th.WarningMax
    /\ ~th.hasCritMin /\ ret.value < th.CriticalMin
    /\ ~th.hasWarnMin /\ ret.value < th.WarningMin
    /\ ret.result = WARNING

\* C6: Validate returns an error iff, among the present bounds, warningMin >
\* warningMax, criticalMin > criticalMax, criticalMin > warningMin or
\* criticalMax < warningMax, and the error is the one of the first of these,
\* in this order, that holds.
C6_Validate ==
    ret.op = "Validate" =>
        LET warnRange == th.hasWarnMin /\ th.hasWarnMax /\ th.WarningMin > th.WarningMax
            critRange == th.hasCritMin /\ th.hasCritMax /\ th.CriticalMin > th.CriticalMax
            mins == th.hasCritMin /\ th.hasWarnMin /\ th.CriticalMin > th.WarningMin
            maxs == th.hasCritMax /\ th.hasWarnMax /\ th.CriticalMax < th.WarningMax
        IN  /\ (ret.err # "nil") <=> (warnRange \/ critRange \/ mins \/ maxs)
            /\ warnRange => ret.err = "warning min and max are invalid"
            /\ (~warnRange /\ critRange) => ret.err = "critical min and max are invalid"
            /\ (~warnRange /\ ~critRange /\ mins)
                   => ret.err = "critical and warning min are invalid"
            /\ (~warnRange /\ ~critRange /\ ~mins /\ maxs)
                   => ret.err = "critical and warning max are invalid"

\* the warning range, the critical range and the two minima are all out of
\* order at once: the error is the warning range's
C6_Witness ==
    /\ ret.op = "Validate"
    /\ th.hasWarnMin /\ th.hasWarnMax /\ th.WarningMin > th.WarningMax
    /\ th.hasCritMin /\ th.hasCritMax /\ th.CriticalMin > th.CriticalMax
    /\ th.CriticalMin > th.WarningMin
    /\ ret.err = "warning min and max are invalid"

(***************************************************************************)
(* SpecStore: data points added to the store of a Response, between        *)
(* status updates; calls records each point and the error its add gave.    *)
(***************************************************************************)
\* the points handed over: every key over two metrics and two labels, the
\* points with thresholds, and points that do not pass Validate
StorePoints ==
    {SetLabel(NewPerformanceDataPoint(metric, 1), label) :
         metric \in {<<"m">>, <<"n">>}, label \in {<< >>, <<"l">>}}
        \cup {InsidePoint, WarningPoint, CriticalPoint, InvalidPoint,
              NewPerformanceDataPoint(<<"=">>, 1),
              SetThresholds(NewPerformanceDataPoint(<<"n">>, 1), NewThresholds(1, 0, 0, 2))}

NextStore ==
    \/ \E point \in StorePoints :
           /\ Len(calls) < MaxCalls
           /\ AddPerformanceDataPoint(point)
           /\ calls' = Append(calls, [op |-> "AddPerformanceDataPoint", point |-> point,
                                      err |-> AddPerformanceDataPointError(point)])
           /\ ret' = [op |-> "AddPerformanceDataPoint",
                      err |-> AddPerformanceDataPointError(point)]
           /\ UNCHANGED th
    \/ \E code \in {WARNING, UNKNOWN} :
           /\ Len(calls) < MaxCalls
           /\ UpdateStatus(code, << >>)
           /\ calls' = Append(calls, [op |-> "UpdateStatus", code |-> code,
                                      message |-> << >>])
           /\ ret' = [op |-> "call"]
           /\ UNCHANGED th

SpecStore == Init /\ [][NextStore]_vars

\* the recorded adds, and those that returned nil
Adds == SelectSeq(calls, LAMBDA c : c.op = "AddPerformanceDataPoint")

Added == SelectSeq(Adds, LAMBDA c : c.err = << >>)

C8_InsertionOrder ==
    getInfo(points, heap) = [i \in 1..Len(Added) |-> Added[i].point]

\* a successful add, a failed one, a successful one: two points stored
C8_Witness ==
    /\ Len(Adds) = 3
    /\ Adds[1].err = << >> /\ Adds[2].err # << >> /\ Adds[3].err = << >>
    /\ Len(points) = 2
    /\ heap[points[1]] = Adds[1].point /\ heap[points[2]] = Adds[3].point
    /\ Adds[1].point # Adds[3].point

\* C9, for one step: a successful AddPerformanceDataPoint of a point with a
\* threshold bound whose CheckValue is not OK merges that result into the
\* status and appends one message with it; any other successful add leaves
\* status and messages alone; the result is WARNING or CRITICAL, never UNKNOWN.
C9_Step ==
    (/\ Len(calls') = Len(calls) + 1
     /\ calls'[Len(calls')].op = "AddPerformanceDataPoint"
     /\ calls'[Len(calls')].err = << >>) =>
        LET point == calls'[Len(calls')].point
            res == CheckValue(point.Thresholds, point.Value)
            name == IF point.Label = << >> THEN point.Metric
                    ELSE point.Metric \o <<" (">> \o point.Label \o <<")">>
        IN  IF ~IsEmpty(point.Thresholds) /\ res # OK
            THEN /\ res \in {WARNING, CRITICAL}
                 /\ statusCode' = updateStatusCode(statusCode, res)
                 /\ outputMessages' =
                        Append(outputMessages,
                               [Status |-> res,
                                Message |-> name \o <<" is outside of ",
                                                      IF res = WARNING THEN "WARNING"
                                                      ELSE "CRITICAL",
                                                      " threshold">>])
            ELSE UNCHANGED <<statusCode, outputMessages>>

\* C9: when AddPerformanceDataPoint succeeds, a violated threshold is merged
\* into the status and reported in exactly one message '<name> is outside of
\* <WARNING|CRITICAL> threshold'; without thresholds or inside them nothing
\* changes; the threshold feedback is never UNKNOWN.
C9_ThresholdFeedback == [][C9_Step]_vars

\* the status was UNKNOWN, then a point outside its warning range was added:
\* the status stays UNKNOWN and the message carries WARNING
C9_Witness ==
    /\ Len(calls) = 2
    /\ calls[1].op = "UpdateStatus" /\ calls[1].code = UNKNOWN
    /\ calls[2].op = "AddPerformanceDataPoint" /\ calls[2].err = << >>
    /\ calls[2].point = WarningPoint
    /\ statusCode = UNKNOWN
    /\ outputMessages = <<[Status |-> WARNING,
                           Message |-> <<"w", " is outside of ", "WARNING", " threshold">>]>>

(***************************************************************************)
(* Claims checked under Spec, the whole Response.                          *)
(***************************************************************************)
\* the step is a finalization: GetInfo or OutputAndExit has run validate
Finalizing == ret'.op \in {"GetInfo", "OutputAndExit"}

\* the default OK message or a stored message holds a '|'
InvalidCharacterFound ==
    \/ Contains(defaultOkMessage, Pipe)
    \/ \E i \in 1..Len(outputMessages) : Contains(outputMessages[i].Message, Pipe)

\* C2 as stated: once the status is CRITICAL it is CRITICAL after every
\* operation, finalization under every invalid-character policy included.
C2_CriticalAbsorbing == [][statusCode = CRITICAL => statusCode' = CRITICAL]_vars

\* C2, amended: a CRITICAL status stays CRITICAL under every operation but
\* one: finalization under InvalidCharacterReplaceWithErrorAndSetUNKNOWN of a
\* Response whose default OK message or a stored message holds a '|', which
\* sets the status to UNKNOWN.
C2_CriticalAbsorbingButSetUnknown ==
    [][statusCode = CRITICAL =>
          \/ statusCode' = CRITICAL
          \/ /\ Finalizing
             /\ invalidCharacterBehaviour = InvalidCharacterReplaceWithErrorAndSetUNKNOWN
             /\ InvalidCharacterFound
             /\ statusCode' = UNKNOWN]_vars

\* a finalization that found a '|' in a message, under the policy that
\* replaces the message by the error text, has left the status CRITICAL
C2_Witness ==
    /\ ret.op = "GetInfo"
    /\ statusCode = CRITICAL
    /\ invalidCharacterBehaviour = InvalidCharacterReplaceWithError
    /\ Len(outputMessages) = 1
    /\ outputMessages[1].Message = MessageInvalidText
    /\ outputMessages[1].Status = WARNING

\* C3: the status code is one of 0, 1, 2, 3 in every reachable state, and so
\* are the code GetStatusCode returns, the StatusCode of GetInfo and the
\* code OutputAndExit exits with.
C3_StatusInRange ==
    /\ statusCode \in OK..UNKNOWN
    /\ GetStatusCodeResult \in OK..UNKNOWN
    /\ ret.op = "GetInfo" => ret.StatusCode \in OK..UNKNOWN
    /\ ret.op = "OutputAndExit" => ret.exitCode \in OK..UNKNOWN

\* the process has exited with UNKNOWN after an update with a status
\* argument above UNKNOWN, which the stored message still carries
C3_Witness ==
    /\ ret.op = "OutputAndExit"
    /\ ret.exitCode = UNKNOWN
    /\ Len(outputMessages) = 1
    /\ outputMessages[1].Status = UNKNOWN + 1

(***************************************************************************)
(* SpecFinalize: status updates with messages, the invalid-character       *)
(* policy, the default message, sorting, and finalization.                 *)
(***************************************************************************)
\* the policies SetInvalidCharacterBehavior accepts
Policies == InvalidCharacterRemove..InvalidCharacterReplaceWithErrorAndSetUNKNOWN

NextFinalize ==
    \/ \E code \in {OK, WARNING, CRITICAL}, message \in Messages \ {<< >>} :
           /\ Len(outputMessages) < MaxFinalMsgs
           /\ UpdateStatus(code, message)
           /\ Dropped
    \/ \E behavior \in Policies, replaceCharacter \in ReplaceChars :
           SetInvalidCharacterBehavior(behavior, replaceCharacter) /\ Dropped
    \/ \E default \in DefaultMessages : WithDefaultOkMessage(default) /\ Dropped
    \/ \E b \in BOOL : SortOutputMessagesByStatus(b) /\ Dropped
    \/ GetInfo /\ ret' = GetInfoResult /\ UNCHANGED <<th, calls>>
    \/ OutputAndExit /\ ret' = OutputAndExitResult /\ UNCHANGED <<th, calls>>

SpecFinalize == Init /\ [][NextFinalize]_vars

\* C10: after finalization, under every policy and every replacement string
\* SetInvalidCharacterBehavior accepts, neither the default OK message (when
\* the status is OK, so that it is shown) nor a stored message holds a '|'.
C10_NoSeparatorInMessages ==
    ret.op \in {"GetInfo", "OutputAndExit"} =>
        /\ statusCode = OK => ~Contains(defaultOkMessage, Pipe)
        /\ \A i \in 1..Len(outputMessages) : ~Contains(outputMessages[i].Message, Pipe)

(***************************************************************************)
(* SpecSort: messages of every status stored in a Response, sorting        *)
(* switched on and off, and GetInfo; calls records the UpdateStatus calls. *)
(***************************************************************************)
NextSort ==
    \/ \E code \in {OK, WARNING, CRITICAL, UNKNOWN, UNKNOWN + 1},
          message \in {<<"a">>, <<"b", "|">>} :
           /\ Len(outputMessages) < MaxSortMsgs
           /\ UpdateStatus(code, message)
           /\ calls' = Append(calls, [op |-> "UpdateStatus", code |-> code, message |-> message])
           /\ ret' = [op |-> "call"]
           /\ UNCHANGED th
    \/ \E b \in BOOL : SortOutputMessagesByStatus(b) /\ Dropped
    \/ GetInfo /\ ret' = GetInfoResult /\ UNCHANGED <<th, calls>>

SpecSort == Init /\ [][NextSort]_vars

\* the stored messages as validateMessages leaves them, before any sorting
Sanitized ==
    validateMessages(statusCode, outputMessages, invalidCharacterBehaviour,
                     invalidCharacterReplaceChar).outputMessages

\* the messages of a list that carry the status st, in list order
WithStatus(msgs, st) == SelectSeq(msgs, LAMBDA m : m.Status = st)

\* C11, for one step: GetInfo with sorting enabled leaves the sanitized
\* messages rearranged so that the CRITICAL ones come first, the others
\* follow in descending numeric status, and messages of one status keep
\* their order; with sorting disabled it leaves them in insertion order.
C11_Step ==
    ret'.op = "GetInfo" =>
        LET before == Sanitized
            after == outputMessages'
        IN  IF sortOutputMessagesByStatus
            THEN /\ Len(after) = Len(before)
                 /\ \A st \in (OK - 1)..(UNKNOWN + 1) :
                        WithStatus(after, st) = WithStatus(before, st)
                 /\ \A i, j \in 1..Len(after) :
                        i < j =>
                            /\ after[i].Status = CRITICAL
                                   \/ (after[j].Status # CRITICAL
                                       /\ after[i].Status >= after[j].Status)
                            /\ after[i].Status = CRITICAL
                                   \/ after[i].Status >= after[j].Status
            ELSE after = before

RepeatReplaceChars == {<< >>, <<"x">>, <<"x", "|">>}

NextRepeat ==
    \/ \E code \in {WARNING, CRITICAL}, message \in {<<"a">>, <<"a", "|", "b">>} :
           /\ Len(outputMessages) < MaxRepeatMsgs
           /\ UpdateStatus(code, message)
           /\ Dropped
    \/ \E behavior \in Policies, replaceCharacter \in RepeatReplaceChars :
           SetInvalidCharacterBehavior(behavior, replaceCharacter) /\ Dropped
    \/ \E default \in DefaultMessages : WithDefaultOkMessage(default) /\ Dropped
    \/ \E b \in BOOL : SortOutputMessagesByStatus(b) /\ Dropped
    \/ /\ Len(calls) < MaxCalls
       /\ GetInfo
       /\ ret' = GetInfoResult
       /\ calls' = Append(calls, [op |-> "GetInfo"])
       /\ UNCHANGED th

SpecRepeat == Init /\ [][NextRepeat]_vars

\* C12, for one step: a GetInfo that directly follows a GetInfo changes
\* neither the status code, the default OK message nor the message list,
\* and returns the same RawOutput and StatusCode.
C12_Step ==
    (ret.op = "GetInfo" /\ ret'.op = "GetInfo" /\ Len(calls') = Len(calls) + 1) =>
        /\ statusCode' = statusCode
        /\ defaultOkMessage' = defaultOkMessage
        /\ outputMessages' = outputMessages
        /\ ret'.RawOutput = ret.RawOutput
        /\ ret'.StatusCode = ret.StatusCode

\* C12: finalization is idempotent for every policy and every accepted
\* replacement string: validate run twice in a row leaves status code,
\* default OK message and message list as validate run once does, and two
\* consecutive GetInfo calls return the same RawOutput and StatusCode.
C12_FinalizationIdempotent == [][C12_Step]_vars

(***************************************************************************)
(* SpecPolicy: SetInvalidCharacterBehavior with every behaviour value and  *)
(* replacement string; ret records the arguments and the error returned.   *)
(***************************************************************************)
NextPolicy ==
    \E behavior \in Behaviors, replaceCharacter \in ReplaceChars \cup RepeatReplaceChars :
        /\ SetInvalidCharacterBehavior(behavior, replaceCharacter)
        /\ ret' = [op |-> "SetInvalidCharacterBehavior",
                   behavior |-> behavior,
                   replaceCharacter |-> replaceCharacter,
                   err |-> SetInvalidCharacterBehaviorError(behavior, replaceCharacter)]
        /\ UNCHANGED <<th, calls>>

SpecPolicy == Init /\ [][NextPolicy]_vars

\* C13, for one step of SetInvalidCharacterBehavior
C13_Step ==
    LET call == ret'
        failed == call.err # << >>
    IN  /\ failed <=>
               \/ call.behavior = InvalidCharacterReplace /\ call.replaceCharacter = << >>
               \/ call.behavior \notin
                      {InvalidCharacterRemove, InvalidCharacterReplace,
                       InvalidCharacterRemoveMessage, InvalidCharacterReplaceWithError,
                       InvalidCharacterReplaceWithErrorAndSetUNKNOWN}
        /\ failed => UNCHANGED <<invalidCharacterBehaviour, invalidCharacterReplaceChar>>
        /\ ~failed => invalidCharacterBehaviour' = call.behavior

\* C13: SetInvalidCharacterBehavior returns an error exactly when the
\* behaviour is InvalidCharacterReplace with an empty replacement string or
\* is none of the five policies; on error the configured policy and
\* replacement string are unchanged; on success the policy is the requested one.
C13_SetterErrors == [][C13_Step]_vars

\* InvalidCharacterReplace without a replacement string was refused, and
\* the policy and replacement string set by earlier calls are still there
C13_Witness ==
    /\ ret.op = "SetInvalidCharacterBehavior"
    /\ ret.behavior = InvalidCharacterReplace
    /\ ret.replaceCharacter = << >>
    /\ ret.err = <<"empty replace character set">>
    /\ invalidCharacterBehaviour = InvalidCharacterRemoveMessage
    /\ invalidCharacterReplaceChar = <<"x">>

(***************************************************************************)
(* Claims about the policies, checked under SpecFinalize.                  *)
(***************************************************************************)
\* the stored messages without a '|', in list order
CleanMessages == SelectSeq(outputMessages, LAMBDA m : ~Contains(m.Message, Pipe))

\* a stored message holds a '|'
MessageOffends == \E i \in 1..Len(outputMessages) : Contains(outputMessages[i].Message, Pipe)

\* the status code a finalizing call hands back: StatusCode of GetInfo, the
\* exit code of OutputAndExit
FinalCode(r) == IF r.op = "GetInfo" THEN r.StatusCode ELSE r.exitCode

\* the text a finalizing call renders: RawOutput of GetInfo, the output of
\* OutputAndExit
FinalOutput(r) == IF r.op = "GetInfo" THEN r.RawOutput ELSE r.stdout

\* C14, for one step
C14_Step ==
    (Finalizing /\ invalidCharacterBehaviour = InvalidCharacterRemoveMessage) =>
        /\ \A i \in 1..Len(outputMessages') : ~Contains(outputMessages'[i].Message, Pipe)
        /\ Len(outputMessages') = Len(CleanMessages)
        /\ \A st \in OK..UNKNOWN :
               WithStatus(outputMessages', st) = WithStatus(CleanMessages, st)
        /\ ~sortOutputMessagesByStatus => outputMessages' = CleanMessages
        /\ statusCode' = statusCode
        /\ FinalCode(ret') = statusCode

\* C14: under InvalidCharacterRemoveMessage finalization removes every
\* stored message that holds a '|', keeps the others, and leaves the status
\* code alone, so the status a removed message contributed is still the
\* final status and the exit code.
C14_RemoveMessageKeepsStatus == [][C14_Step]_vars

\* the only stored message held a '|' and came with CRITICAL: the process
\* has exited with CRITICAL and without a message
C14_Witness ==
    /\ ret.op = "OutputAndExit"
    /\ invalidCharacterBehaviour = InvalidCharacterRemoveMessage
    /\ ret.exitCode = CRITICAL
    /\ statusCode = CRITICAL
    /\ outputMessages = << >>
    /\ ret.stdout = <<"CRITICAL", ": ">> \o Newline

\* C15, for one step
C15_Step ==
    (/\ Finalizing
     /\ invalidCharacterBehaviour \in {InvalidCharacterReplaceWithError,
                                       InvalidCharacterReplaceWithErrorAndSetUNKNOWN}
     /\ ~Contains(defaultOkMessage, Pipe)
     /\ MessageOffends) =>
        /\ Len(outputMessages') = 1
        /\ outputMessages'[1].Message = <<"output message contains invalid character">>
        /\ invalidCharacterBehaviour = InvalidCharacterReplaceWithError
               => statusCode' = statusCode /\ FinalCode(ret') = statusCode
        /\ invalidCharacterBehaviour = InvalidCharacterReplaceWithErrorAndSetUNKNOWN
               => statusCode' = UNKNOWN /\ FinalCode(ret') = UNKNOWN

\* C15: under InvalidCharacterReplaceWithError and
\* InvalidCharacterReplaceWithErrorAndSetUNKNOWN, when the default message
\* holds no '|' and a stored message does, finalization leaves exactly one
\* message, 'output message contains invalid character'; the first policy
\* leaves the status code alone, the second sets it to UNKNOWN.
C15_ReplaceWithError == [][C15_Step]_vars

\* GetInfo under InvalidCharacterReplaceWithErrorAndSetUNKNOWN, with a clean
\* default message, has left the one error message and the status UNKNOWN
C15_Witness ==
    /\ ret.op = "GetInfo"
    /\ invalidCharacterBehaviour = InvalidCharacterReplaceWithErrorAndSetUNKNOWN
    /\ ~Contains(defaultOkMessage, Pipe)
    /\ ret.StatusCode = UNKNOWN
    /\ outputMessages = <<[Status |-> UNKNOWN, Message |-> MessageInvalidText]>>
    /\ ret.RawOutput = <<"UNKNOWN", ": ">> \o MessageInvalidText

\* C16, for one step
C16_Step ==
    (/\ Finalizing
     /\ invalidCharacterBehaviour = InvalidCharacterReplaceWithErrorAndSetUNKNOWN
     /\ Contains(defaultOkMessage, Pipe)) =>
        /\ statusCode' = UNKNOWN
        /\ \E i \in 1..Len(FinalOutput(ret')) :
               <<FinalOutput(ret')[i]>> = DefaultInvalidText
        /\ Len(outputMessages) > 0 => Len(outputMessages') > 0

\* C16: under InvalidCharacterReplaceWithErrorAndSetUNKNOWN, when the
\* default OK message holds a '|', finalization sets the status to UNKNOWN,
\* the rendered output carries 'default output message contains invalid
\* character', and the stored messages are still processed, not discarded.
C16_DefaultMessageDiagnostic == [][C16_Step]_vars

(***************************************************************************)
(* SpecOutput: status updates, data points, the delimiter and the print    *)
(* flag, and the rendering; calls records the UpdateStatus,                *)
(* AddPerformanceDataPoint, CheckThresholds and GetInfo calls.             *)
(***************************************************************************)
\* the points handed over: two that are stored without a message, one
\* outside its warning range, one that does not pass Validate
OutputPoints ==
    {PlainPoint, SetLabel(NewPerformanceDataPoint(<<"m">>, 1), <<"l">>),
     WarningPoint, InvalidPoint}

NextOutput ==
    \/ \E code \in {OK, CRITICAL, UNKNOWN + 1}, message \in {<< >>, <<"a">>, <<"|">>} :
           /\ Len(calls) < MaxCalls
           /\ UpdateStatus(code, message)
           /\ calls' = Append(calls, [op |-> "UpdateStatus", code |-> code, message |-> message])
           /\ ret' = [op |-> "call"]
           /\ UNCHANGED th
    \/ \E point \in OutputPoints :
           /\ Len(calls) < MaxCalls
           /\ AddPerformanceDataPoint(point)
           /\ calls' = Append(calls, [op |-> "AddPerformanceDataPoint", point |-> point,
                                      err |-> AddPerformanceDataPointError(point)])
           /\ ret' = [op |-> "call"]
           /\ UNCHANGED th
    \/ \E point \in {PlainPoint, WarningPoint} :
           /\ Len(calls) < MaxCalls
           /\ CheckThresholds(point)
           /\ calls' = Append(calls, [op |-> "CheckThresholds", point |-> point])
           /\ ret' = [op |-> "call"]
           /\ UNCHANGED th
    \/ \E delimiter \in Delimiters : SetOutputDelimiter(delimiter) /\ Dropped
    \/ \E b \in BOOL : PrintPerformanceData(b) /\ Dropped
    \/ /\ Len(calls) < MaxCalls
       /\ GetInfo
       /\ ret' = GetInfoResult
       /\ calls' = Append(calls, [op |-> "GetInfo"])
       /\ UNCHANGED th
    \/ OutputAndExit /\ ret' = OutputAndExitResult /\ UNCHANGED <<th, calls>>

SpecOutput == Init /\ [][NextOutput]_vars

\* the text a finalizing call renders, without the line end OutputAndExit adds
FinalText(r) ==
    IF r.op = "GetInfo" THEN r.RawOutput ELSE SubSeq(r.stdout, 1, Len(r.stdout) - 1)

\* where the performance data segment starts in a rendered text (0: nowhere)
SegmentAt(out) ==
    IF \E i \in 1..Len(out) : out[i] = " | "
    THEN CHOOSE i \in 1..Len(out) : out[i] = " | " /\ \A j \in 1..(i - 1) : out[j] # " | "
    ELSE 0

\* a rendered text up to the performance data segment
MessagePart(out) == IF SegmentAt(out) = 0 THEN out ELSE SubSeq(out, 1, SegmentAt(out) - 1)

\* the rendered text of a finalizing step is the severity name, ': ', the
\* default OK message iff the status is OK (with the delimiter after it iff
\* a message is stored), and the stored messages joined by the delimiter
C17_Layout ==
    Finalizing =>
        MessagePart(FinalText(ret')) =
            <<(<<"OK", "WARNING", "CRITICAL", "UNKNOWN">>)[statusCode' + 1], ": ">>
            \o (IF statusCode' = OK
                THEN defaultOkMessage'
                     \o (IF Len(outputMessages') > 0 THEN outputDelimiter ELSE << >>)
                ELSE << >>)
            \o Join([i \in 1..Len(outputMessages') |-> outputMessages'[i].Message],
                    outputDelimiter)

\* C17 as stated, for one step: the layout, and a Response with default
\* message m and no updates renders exactly 'OK: m' with exit code 0
C17_StepAsStated ==
    /\ C17_Layout
    /\ (Finalizing /\ calls = << >>) =>
           /\ FinalText(ret') = <<"OK", ": ">> \o defaultOkMessage
           /\ FinalCode(ret') = 0

\* C17 as stated: the rendered output is the severity name of the status and
\* ': ', then the default OK message iff the status is OK, followed by the
\* delimiter iff a message is stored, then the stored messages joined by the
\* delimiter; a Response with default message m and no updates renders
\* exactly 'OK: m' with exit code 0.
C17_OutputLayout == [][C17_StepAsStated]_vars

\* C17, amended, for one step: the same, for a default message without '|'
C17_StepAmended ==
    /\ C17_Layout
    /\ (Finalizing /\ calls = << >> /\ ~Contains(defaultOkMessage, Pipe)) =>
           /\ FinalText(ret') = <<"OK", ": ">> \o defaultOkMessage
           /\ FinalCode(ret') = 0

\* C17, amended: the rendered output is laid out as stated, from the default
\* OK message and the messages as finalization leaves them; a Response with
\* a default message m that holds no '|' and no updates renders exactly
\* 'OK: m' with exit code 0.
C17_OutputLayoutOfCleanDefault == [][C17_StepAmended]_vars

\* status OK with two messages under the delimiter ' / ': the default
\* message, the delimiter and the two messages joined by it
C17_Witness ==
    /\ ret.op = "GetInfo"
    /\ statusCode = OK
    /\ outputDelimiter = <<" / ">>
    /\ Len(outputMessages) = 2
    /\ points = << >>
    /\ ret.RawOutput = <<"OK", ": ", "d", " / ", "a", " / ", "a">>

\* a rendered text from after the start of the performance data segment on
SegmentOf(out) == SubSeq(out, SegmentAt(out) + 1, Len(out))

\* C18: the rendered output has the ' | ' segment iff printing is enabled
\* and at least one point was added successfully; the segment then holds
\* one rendered entry for each successfully added point, in the order of
\* the adds, separated by single spaces; a point whose add failed is not in it.
C18_PerformanceDataSegment ==
    ret.op \in {"GetInfo", "OutputAndExit"} =>
        LET out == FinalText(ret)
        IN  /\ (SegmentAt(out) # 0) <=> (printPerformanceData /\ Len(Added) > 0)
            /\ SegmentAt(out) # 0 =>
                   /\ SegmentOf(out) =
                          Join([i \in 1..Len(Added) |->
                                    PointOutput(Added[i].point, performanceDataJSONLabel)],
                               <<" ">>)
                   /\ Cardinality({i \in 1..Len(out) : out[i] = " | "}) = 1
                   /\ Cardinality({i \in 1..Len(out) : out[i] = " "}) = Len(Added) - 1

\* two points were added, then one add failed: the segment holds the two
C18_Witness ==
    /\ ret.op = "OutputAndExit"
    /\ printPerformanceData
    /\ Len(Adds) = 3 /\ Len(Added) = 2
    /\ Adds[3].err # << >>
    /\ SegmentOf(FinalText(ret)) =
           <<"'", "m", "'", "=", "1", " ", "'", "m", "_", "l", "'", "=", "1">>

(***************************************************************************)
(* SpecPoint: one PerformanceDataPoint of the caller, at heap[1], made by  *)
(* NewPerformanceDataPoint, given a unit, a min and a max, and validated.  *)
(***************************************************************************)
InitPoint ==
    /\ statusCode = OK
    /\ defaultOkMessage = <<"d">>
    /\ outputMessages = << >>
    /\ \E value \in Bounds : heap = <<NewPerformanceDataPoint(<<"m">>, value)>>
    /\ points = << >>
    /\ keys = << >>
    /\ outputDelimiter = Newline
    /\ performanceDataJSONLabel = FALSE
    /\ printPerformanceData = TRUE
    /\ sortOutputMessagesByStatus = TRUE
    /\ invalidCharacterBehaviour = InvalidCharacterRemove
    /\ invalidCharacterReplaceChar = << >>
    /\ th = EmptyThresholds
    /\ ret = [op |-> "NewPerformanceDataPoint"]
    /\ calls = << >>

\* the fields of the Response, and the variables, but for the heap
pointFrame == <<statusCode, defaultOkMessage, outputMessages, points, keys, configVars,
                th, calls>>

Point_SetUnit(unit) ==
    /\ heap' = [heap EXCEPT ![1] = SetUnit(@, unit)]
    /\ ret' = [op |-> "SetUnit"]
    /\ UNCHANGED pointFrame

Point_SetMin(min) ==
    /\ heap' = [heap EXCEPT ![1] = SetMin(@, min)]
    /\ ret' = [op |-> "SetMin"]
    /\ UNCHANGED pointFrame

Point_SetMax(max) ==
    /\ heap' = [heap EXCEPT ![1] = SetMax(@, max)]
    /\ ret' = [op |-> "SetMax"]
    /\ UNCHANGED pointFrame

Point_Validate ==
    /\ ret' = [op |-> "Validate", err |-> PointValidate(heap[1])]
    /\ UNCHANGED <<heap, pointFrame>>

NextPoint ==
    \/ \E unit \in {<< >>, <<"s">>, <<"1">>} : Point_SetUnit(unit)
    \/ \E min \in Bounds : Point_SetMin(min)
    \/ \E max \in Bounds : Point_SetMax(max)
    \/ Point_Validate

SpecPoint == InitPoint /\ [][NextPoint]_vars

\* C19: Validate rejects a point whose value is below a present min or above
\* a present max, each bound on its own, or whose min is above its max when
\* both are present; a point with a valid name and unit is rejected for no
\* other reason, so a value equal to min or to max is accepted; a point that
\* passes with both bounds has min <= value <= max.
C19_ValidateMinMax ==
    ret.op = "Validate" =>
        LET p == heap[1]
            below == p.hasMin /\ p.Value < p.Min
            above == p.hasMax /\ p.Value > p.Max
            crossed == p.hasMin /\ p.hasMax /\ p.Min > p.Max
        IN  /\ (below \/ above \/ crossed) => ret.err # << >>
            /\ (p.Unit \in {<< >>, <<"s">>} /\ ~below /\ ~above /\ ~crossed) => ret.err = << >>
            /\ (ret.err = << >> /\ p.hasMin /\ p.hasMax) => (p.Min <= p.Value /\ p.Value <= p.Max)

\* a point with a max only, and a value above it, was rejected
C19_Witness ==
    /\ ret.op = "Validate"
    /\ ~heap[1].hasMin /\ heap[1].hasMax
    /\ heap[1].Value > heap[1].Max
    /\ heap[1].Unit = << >>
    /\ ret.err = <<"value cannot be larger than max">>

\* a recorded call that the claim counts as storing a message: UpdateStatus
\* with a non-empty message, and a successful AddPerformanceDataPoint of a
\* point whose thresholds its value violates
StoresMessageAsStated(c) ==
    \/ c.op = "UpdateStatus" /\ c.message # << >>
    \/ /\ c.op = "AddPerformanceDataPoint"
       /\ c.err = << >>
       /\ ~IsEmpty(c.point.Thresholds)
       /\ CheckValue(c.point.Thresholds, c.point.Value) # OK

\* a recorded call that stores a message: those, and CheckThresholds of a
\* point whose thresholds its value violates
StoresMessage(c) ==
    \/ StoresMessageAsStated(c)
    \/ c.op = "CheckThresholds" /\ CheckValue(c.point.Thresholds, c.point.Value) # OK

\* no finalization has run when the recorded calls are cs and the last result r
BeforeFinalization(cs, r) ==
    /\ r.op # "OutputAndExit"
    /\ \A i \in 1..Len(cs) : cs[i].op # "GetInfo"

\* what one UpdateStatus step does to the status code and the message list
C20_Appends ==
    (Len(calls') = Len(calls) + 1 /\ calls'[Len(calls')].op = "UpdateStatus") =>
        LET c == calls'[Len(calls')]
        IN  /\ statusCode' = updateStatusCode(statusCode, c.code)
            /\ IF c.message # << >>
               THEN /\ Len(outputMessages') = Len(outputMessages) + 1
                    /\ outputMessages'[Len(outputMessages')] =
                           [Status |-> c.code, Message |-> c.message]
                    /\ \A i \in 1..Len(outputMessages) :
                           outputMessages'[i] = outputMessages[i]
               ELSE outputMessages' = outputMessages

\* C20 as stated, for one step
C20_StepAsStated ==
    /\ C20_Appends
    /\ BeforeFinalization(calls', ret') =>
           Len(outputMessages') =
               Cardinality({i \in 1..Len(calls') : StoresMessageAsStated(calls'[i])})

C20_StepAmended ==
    /\ C20_Appends
    /\ BeforeFinalization(calls', ret') =>
           Len(outputMessages') =
               Cardinality({i \in 1..Len(calls') : StoresMessage(calls'[i])})

WrapperCodes == {OK, WARNING, CRITICAL, UNKNOWN + 1}

NextWrappers ==
    \/ \E condition \in BOOL, code \in WrapperCodes, message \in {<< >>, <<"a">>} :
           /\ UpdateStatusIf(condition, code, message)
           /\ Len(outputMessages') <= MaxFinalMsgs
           /\ ret' = [op |-> "UpdateStatusIf", condition |-> condition, code |-> code,
                      message |-> message, result |-> UpdateStatusIfResult(condition)]
           /\ UNCHANGED <<th, calls>>
    \/ \E condition \in BOOL, code \in WrapperCodes, message \in {<< >>, <<"a">>} :
           /\ UpdateStatusIfNot(condition, code, message)
           /\ Len(outputMessages') <= MaxFinalMsgs
           /\ ret' = [op |-> "UpdateStatusIfNot", condition |-> condition, code |-> code,
                      message |-> message, result |-> UpdateStatusIfNotResult(condition)]
           /\ UNCHANGED <<th, calls>>
    \/ \E err \in Errors, code \in WrapperCodes, message \in {<< >>, <<"a">>},
          includeErrorMessage \in BOOL :
           /\ UpdateStatusOnError(err, code, message, includeErrorMessage)
           /\ Len(outputMessages') <= MaxFinalMsgs
           /\ ret' = [op |-> "UpdateStatusOnError", err |-> err, code |-> code,
                      message |-> message, includeErrorMessage |-> includeErrorMessage,
                      result |-> UpdateStatusOnErrorResult(err)]
           /\ UNCHANGED <<th, calls>>

SpecWrappers == Init /\ [][NextWrappers]_vars

\* status code and message list are what UpdateStatus(code, message) makes of them
LikeUpdateStatus(code, message) ==
    /\ statusCode' = updateStatusCode(statusCode, code)
    /\ outputMessages' = IF message # << >>
                         THEN Append(outputMessages, [Status |-> code, Message |-> message])
                         ELSE outputMessages

\* C21, for one step
C21_Step ==
    LET call == ret'
    IN  /\ call.op = "UpdateStatusIf" =>
               /\ call.result = call.condition
               /\ call.condition => LikeUpdateStatus(call.code, call.message)
               /\ ~call.condition => UNCHANGED respVars
        /\ call.op = "UpdateStatusIfNot" =>
               /\ call.result = ~call.condition
               /\ ~call.condition => LikeUpdateStatus(call.code, call.message)
               /\ call.condition => UNCHANGED respVars
        /\ call.op = "UpdateStatusOnError" =>
               /\ call.result = ~call.err.isNil
               /\ call.err.isNil => UNCHANGED respVars
               /\ ~call.err.isNil => statusCode' = updateStatusCode(statusCode, call.code)

\* C21: UpdateStatusIf updates like UpdateStatus when the condition is true
\* and changes nothing when it is false; UpdateStatusIfNot does so with the
\* condition negated; UpdateStatusOnError changes nothing when err is nil;
\* each returns true exactly when it made the update.
C21_ConditionalUpdates == [][C21_Step]_vars

\* UpdateStatusIfNot with a false condition has returned true and stored
\* the message
C21_Witness ==
    /\ ret.op = "UpdateStatusIfNot"
    /\ ~ret.condition /\ ret.result
    /\ ret.code = WARNING /\ ret.message = <<"a">>
    /\ statusCode = WARNING
    /\ outputMessages = <<[Status |-> WARNING, Message |-> <<"a">>]>>

(***************************************************************************)
(* SpecRange: a Thresholds value as in SpecThresholds, and the rendering   *)
(* of its warning and critical range.                                      *)
(***************************************************************************)
Thresholds_getWarning ==
    /\ ret' = [op |-> "getWarning", text |-> getWarning(th)]
    /\ UNCHANGED <<respVars, th, calls>>

Thresholds_getCritical ==
    /\ ret' = [op |-> "getCritical", text |-> getCritical(th)]
    /\ UNCHANGED <<respVars, th, calls>>

NextRange ==
    \/ \E useMin \in BOOL, useMax \in BOOL : Thresholds_UseWarning(useMin, useMax)
    \/ \E useMin \in BOOL, useMax \in BOOL : Thresholds_UseCritical(useMin, useMax)
    \/ Thresholds_getWarning
    \/ Thresholds_getCritical

SpecRange == InitThresholds /\ [][NextRange]_vars

\* the range text the claim gives for (min, max, hasMin, hasMax)
RangeText(min, max, hasMin, hasMax) ==
    IF ~hasMin /\ ~hasMax THEN << >>
    ELSE IF ~hasMin THEN <<"~", ":", ToString(max)>>
    ELSE IF ~hasMax THEN <<ToString(min), ":">>
    ELSE IF min = 0 THEN <<ToString(max)>>
    ELSE <<ToString(min), ":", ToString(max)>>

\* C22: a range renders as the empty string when both bounds are absent, as
\* '~:' and max when only max is present, as min and ':' when only min is
\* present (also when min is 0), and as min ':' max when both are present,
\* but as max alone when min renders as 0.
C22_RangeRendering ==
    /\ ret.op = "getWarning" =>
           ret.text = RangeText(th.WarningMin, th.WarningMax, th.hasWarnMin, th.hasWarnMax)
    /\ ret.op = "getCritical" =>
           ret.text = RangeText(th.CriticalMin, th.CriticalMax, th.hasCritMin, th.hasCritMax)

\* a warning range with the min 0 and no max has rendered as '0:'
C22_Witness ==
    /\ ret.op = "getWarning"
    /\ th.hasWarnMin /\ ~th.hasWarnMax /\ th.WarningMin = 0
    /\ ret.text = <<"0", ":">>

(***************************************************************************)
(* SpecCodes: the two conversions between status codes and status names,   *)
(* applied to codes inside and outside 0..3 and to strings that are and    *)
(* are not a spelling of a status name.                                    *)
(***************************************************************************)
CodeInputs == (-2)..6

\* the spellings of a name: every character in upper or lower case, a K also
\* as the Kelvin sign
CaseOf(c) ==
    {c} \cup {LowerLetters[i] : i \in {j \in 1..Len(UpperLetters) : UpperLetters[j] = c}}
        \cup (IF c = "K" THEN {KelvinSign} ELSE {})

RECURSIVE Spellings(_)
Spellings(name) ==
    IF name = << >> THEN {<< >>}
    ELSE {<<c>> \o rest : c \in CaseOf(Head(name)), rest \in Spellings(Tail(name))}

StatusNames == {"OK", "WARNING", "CRITICAL", "UNKNOWN"}

OtherStrings ==
    {<< >>, <<"O">>, <<"O", "K", " ">>, <<" ", "o", "k">>, <<"O", "K", "A", "Y">>,
     <<"0">>, <<"W", "A", "R", "N">>, <<"C", "R", "I", "T">>, <<"N", "O", "N", "E">>,
     <<"U", "N", "K", "N", "O", "W", "N", "S">>, <<"E", "R", "R", "O", "R">>}

StringInputs == UNION {Spellings(Chars(name)) : name \in StatusNames} \cup OtherStrings

Code_StatusCode2Text(code) ==
    /\ ret' = [op |-> "StatusCode2Text", code |-> code,
               text |-> StatusCode2Text(code),
               back |-> String2StatusCode(Chars(StatusCode2Text(code)))]
    /\ UNCHANGED <<respVars, th, calls>>

Code_String2StatusCode(s) ==
    /\ ret' = [op |-> "String2StatusCode", s |-> s, code |-> String2StatusCode(s)]
    /\ UNCHANGED <<respVars, th, calls>>

NextCodes ==
    \/ \E code \in CodeInputs : Code_StatusCode2Text(code)
    \/ \E s \in StringInputs : Code_String2StatusCode(s)

SpecCodes == Init /\ [][NextCodes]_vars

\* s spells name, case ignored
Spells(s, name) ==
    /\ Len(s) = Len(Chars(name))
    /\ \A i \in 1..Len(s) : s[i] \in CaseOf(Chars(name)[i])

Finalized ==
    \/ ret.op = "OutputAndExit"
    \/ \E i \in 1..Len(calls) : calls[i].op = "GetInfo"

\* the step is an UpdateStatus or AddPerformanceDataPoint call, or a setter
UpdateOrAddStep ==
    /\ Len(calls') = Len(calls) + 1
    /\ calls'[Len(calls')].op \in {"UpdateStatus", "AddPerformanceDataPoint"}

SetterStep == ret'.op = "call" /\ calls' = calls

C24_Frozen ==
    (Finalized /\ (UpdateOrAddStep \/ SetterStep)) =>
        /\ UNCHANGED <<statusCode, outputMessages, heap, points, keys>>
        /\ Rendered(Validated)' = Rendered(Validated)

C24_Open ==
    /\ ret.op # "OutputAndExit"
    /\ (Finalized /\ UpdateOrAddStep) =>
           LET call == calls'[Len(calls')]
           IN  /\ call.op = "UpdateStatus" =>
                      /\ statusCode' = updateStatusCode(statusCode, call.code)
                      /\ outputMessages' =
                             IF call.message = << >> THEN outputMessages
                             ELSE Append(outputMessages,
                                         [Status |-> call.code, Message |-> call.message])
               /\ (call.op = "AddPerformanceDataPoint" /\ call.err = << >>) =>
                      /\ Len(points') = Len(points) + 1
                      /\ heap'[points'[Len(points')]] = call.point
    /\ (Finalized /\ SetterStep) =>
           \/ outputDelimiter' # outputDelimiter
           \/ printPerformanceData' # printPerformanceData
           \/ UNCHANGED configVars

C25_Step ==
    (/\ Len(calls') = Len(calls) + 1
     /\ calls'[Len(calls')].op = "AddPerformanceDataPoint") =>
        LET call == calls'[Len(calls')]
            fails == \/ PointValidate(call.point) # << >>
                     \/ \E i \in 1..Len(points) :
                            /\ heap[points[i]].Metric = call.point.Metric
                            /\ heap[points[i]].Label = call.point.Label
        IN  /\ fails <=> call.err # << >>
            /\ call.err # << >> =>
                   /\ UNCHANGED <<points, keys, heap>>
                   /\ UNCHANGED <<statusCode, outputMessages>>

\* C25: a failed add (the point does not pass Validate, or its key is already
\* stored) leaves the point sequence and the index map as they were, and
\* AddPerformanceDataPoint then returns an error without evaluating the
\* point's thresholds: status code and messages are as they were.
C25_FailedAddChangesNothing == [][C25_Step]_vars

\* a point outside its warning range was added twice: the second add failed,
\* and there is one stored point and one message
C25_Witness ==
    /\ Len(calls) = 2 /\ ret.op = "AddPerformanceDataPoint" /\ ret.err # << >>
    /\ calls[1].op = "AddPerformanceDataPoint" /\ calls[1].point = WarningPoint
    /\ calls[1].err = << >>
    /\ calls[2].op = "AddPerformanceDataPoint" /\ calls[2].point = WarningPoint
    /\ PointCheckThresholds(calls[2].point) = WARNING
    /\ Len(points) = 1 /\ Len(outputMessages) = 1 /\ statusCode = WARNING

\* the messages of clean are all in post, each at a place of its own, and in
\* their order when inOrder is set
KeptIn(clean, post, inOrder) ==
    \E f \in [1..Len(clean) -> 1..Len(post)] :
        /\ \A i \in 1..Len(clean) : post[f[i]] = clean[i]
        /\ \A i \in 1..Len(clean) : \A j \in 1..Len(clean) : i # j => f[i] # f[j]
        /\ inOrder => \A i \in 1..Len(clean) : \A j \in 1..Len(clean) :
                          i < j => f[i] < f[j]

C26_KeepsClean ==
    Finalizing => KeptIn(CleanMessages, outputMessages', ~sortOutputMessagesByStatus)

WholeListReplaced ==
    \/ /\ invalidCharacterBehaviour \in {InvalidCharacterReplaceWithError,
                                         InvalidCharacterReplaceWithErrorAndSetUNKNOWN}
       /\ MessageOffends
    \/ /\ invalidCharacterBehaviour = InvalidCharacterReplaceWithErrorAndSetUNKNOWN
       /\ Contains(defaultOkMessage, Pipe)

C26_KeepsCleanUnlessReplaced ==
    Finalizing =>
        IF WholeListReplaced
        THEN /\ Len(outputMessages') <= 1
             /\ \A k \in 1..Len(outputMessages') :
                    outputMessages'[k].Message = MessageInvalidText
        ELSE KeptIn(CleanMessages, outputMessages', ~sortOutputMessagesByStatus)

Alias_NewPerformanceDataPoint ==
    /\ Len(heap) < MaxHeap
    /\ heap' = Append(heap, NewPerformanceDataPoint(<<"m">>, 1))
    /\ ret' = [op |-> "NewPerformanceDataPoint", addr |-> Len(heap) + 1]
    /\ UNCHANGED <<statusCode, defaultOkMessage, outputMessages, points, keys,
                   configVars, th, calls>>

\* Response.AddPerformanceDataPoint of the point at address addr
Alias_AddPerformanceDataPoint(addr) ==
    /\ Len(points) < MaxStored
    /\ LET a == add(points, keys, heap, addr)
           c == IF HasThresholds(heap[addr])
                THEN CheckThresholdsFields(statusCode, outputMessages, heap[addr])
                ELSE [statusCode |-> statusCode, outputMessages |-> outputMessages]
       IN  /\ points' = a.points
           /\ keys' = a.keys
           /\ statusCode' = IF a.err = << >> THEN c.statusCode ELSE statusCode
           /\ outputMessages' = IF a.err = << >> THEN c.outputMessages ELSE outputMessages
           /\ ret' = [op |-> "AddPerformanceDataPoint", addr |-> addr,
                      err |-> IF a.err # << >>
                              THEN <<"failed to add performance data point: ">> \o a.err
                              ELSE << >>]
    /\ UNCHANGED <<heap, defaultOkMessage, configVars, th, calls>>

aliasFrame == <<statusCode, defaultOkMessage, outputMessages, points, keys, configVars,
                th, calls>>

Alias_SetLabel(addr, label) ==
    /\ heap' = [heap EXCEPT ![addr] = SetLabel(@, label)]
    /\ ret' = [op |-> "SetLabel", addr |-> addr]
    /\ UNCHANGED aliasFrame

Alias_SetMin(addr, min) ==
    /\ heap' = [heap EXCEPT ![addr] = SetMin(@, min)]
    /\ ret' = [op |-> "SetMin", addr |-> addr]
    /\ UNCHANGED aliasFrame

Alias_SetMax(addr, max) ==
    /\ heap' = [heap EXCEPT ![addr] = SetMax(@, max)]
    /\ ret' = [op |-> "SetMax", addr |-> addr]
    /\ UNCHANGED aliasFrame

Alias_SetUnit(addr, unit) ==
    /\ heap' = [heap EXCEPT ![addr] = SetUnit(@, unit)]
    /\ ret' = [op |-> "SetUnit", addr |-> addr]
    /\ UNCHANGED aliasFrame

Alias_SetThresholds(addr, thresholds) ==
    /\ heap' = [heap EXCEPT ![addr] = SetThresholds(@, thresholds)]
    /\ ret' = [op |-> "SetThresholds", addr |-> addr]
    /\ UNCHANGED aliasFrame

\* thresholds the value 1 lies inside, and thresholds that do not pass Validate
AliasThresholds == {NewThresholds(0, 2, 0, 2), NewThresholds(1, 0, 0, 2)}

NextAlias ==
    \/ Alias_NewPerformanceDataPoint
    \/ \E addr \in 1..Len(heap) : Alias_AddPerformanceDataPoint(addr)
    \/ \E addr \in 1..Len(heap), label \in {<< >>, <<"l">>} : Alias_SetLabel(addr, label)
    \/ \E addr \in 1..Len(heap) : Alias_SetMin(addr, 2)
    \/ \E addr \in 1..Len(heap) : Alias_SetMax(addr, 0)
    \/ \E addr \in 1..Len(heap) : Alias_SetUnit(addr, <<"s">>)
    \/ \E addr \in 1..Len(heap), thresholds \in AliasThresholds :
           Alias_SetThresholds(addr, thresholds)

SpecAlias == Init /\ [][NextAlias]_vars

\* the stored point at position i (counted from 1)
Stored(i) == heap[points[i]]

\* C27: whatever adds and setter calls have happened, setters on stored points
\* included, the index map has exactly one entry per stored point, the entry
\* for a stored point's key is that point's position, no two stored points
\* have the same metric and label, and every stored point passes Validate.
C27_StoreConsistent ==
    /\ Cardinality(DOMAIN keys) = Len(points)
    /\ \A i \in 1..Len(points) :
           /\ key(Stored(i)) \in DOMAIN keys
           /\ keys[key(Stored(i))] = i - 1
    /\ \A i \in 1..Len(points) : \A j \in 1..Len(points) :
           i # j => key(Stored(i)) # key(Stored(j))
    /\ \A i \in 1..Len(points) : PointValidate(Stored(i)) = << >>

(***************************************************************************)
(* SpecReadOnly: UpdateStatus, AddPerformanceDataPoint and setter calls,   *)
(* recorded in calls, with GetInfo calls in between, which are not         *)
(* recorded.  Replaying calls on a new Response gives the run without the  *)
(* GetInfo calls in between.                                               *)
(***************************************************************************)
InitReadOnly ==
    /\ NewResponse(<<"d">>)
    /\ th = EmptyThresholds
    /\ ret = [op |-> "NewResponse"]
    /\ calls = << >>

NextReadOnly ==
    \/ \E code \in {OK, WARNING, CRITICAL}, message \in {<<"a">>, <<"a", "|", "b">>} :
           /\ Len(calls) < MaxCalls
           /\ UpdateStatus(code, message)
           /\ calls' = Append(calls, [op |-> "UpdateStatus", code |-> code, message |-> message])
           /\ ret' = [op |-> "call"]
           /\ UNCHANGED th
    \/ \E point \in {PlainPoint, WarningPoint} :
           /\ Len(calls) < MaxCalls
           /\ AddPerformanceDataPoint(point)
           /\ calls' = Append(calls, [op |-> "AddPerformanceDataPoint", point |-> point])
           /\ ret' = [op |-> "call"]
           /\ UNCHANGED th
    \/ \E behavior \in Policies :
           /\ Len(calls) < MaxCalls
           /\ SetInvalidCharacterBehavior(behavior, <<"x">>)
           /\ calls' = Append(calls, [op |-> "SetInvalidCharacterBehavior",
                                      behavior |-> behavior, replaceCharacter |-> <<"x">>])
           /\ ret' = [op |-> "call"]
           /\ UNCHANGED th
    \/ \E b \in BOOL :
           /\ Len(calls) < MaxCalls
           /\ SortOutputMessagesByStatus(b)
           /\ calls' = Append(calls, [op |-> "SortOutputMessagesByStatus", b |-> b])
           /\ ret' = [op |-> "call"]
           /\ UNCHANGED th
    \/ GetInfo /\ ret' = GetInfoResult /\ UNCHANGED <<th, calls>>

SpecReadOnly == InitReadOnly /\ [][NextReadOnly]_vars

\* the fields of the Response NewResponse("d") returns
NewFields ==
    [statusCode |-> OK, defaultOkMessage |-> <<"d">>, outputMessages |-> << >>,
     heap |-> << >>, points |-> << >>, keys |-> << >>,
     invalidCharacterBehaviour |-> InvalidCharacterRemove,
     invalidCharacterReplaceChar |-> << >>,
     sortOutputMessagesByStatus |-> TRUE]

\* the fields after one recorded call
Apply(r, call) ==
    IF call.op = "UpdateStatus"
      THEN LET u == UpdateStatusFields(r.statusCode, r.outputMessages, call.code, call.message)
           IN  [r EXCEPT !.statusCode = u.statusCode, !.outputMessages = u.outputMessages]
    ELSE IF call.op = "AddPerformanceDataPoint"
      THEN LET hp == Append(r.heap, call.point)
               a == add(r.points, r.keys, hp, Len(hp))
               c == IF HasThresholds(call.point)
                    THEN CheckThresholdsFields(r.statusCode, r.outputMessages, call.point)
                    ELSE [statusCode |-> r.statusCode, outputMessages |-> r.outputMessages]
           IN  IF a.err # << >> THEN r
               ELSE [r EXCEPT !.heap = hp, !.points = a.points, !.keys = a.keys,
                              !.statusCode = c.statusCode,
                              !.outputMessages = c.outputMessages]
    ELSE IF call.op = "SetInvalidCharacterBehavior"
      THEN [r EXCEPT !.invalidCharacterBehaviour = call.behavior,
                     !.invalidCharacterReplaceChar =
                         IF call.behavior = InvalidCharacterReplace
                         THEN call.replaceCharacter ELSE @]
    ELSE [r EXCEPT !.sortOutputMessagesByStatus = call.b]

RECURSIVE Replay(_, _)
Replay(r, cs) == IF cs = << >> THEN r ELSE Replay(Apply(r, Head(cs)), Tail(cs))

\* what GetInfo returns for the fields r
GetInfoOf(r) ==
    LET v == validate(r.statusCode, r.defaultOkMessage, r.outputMessages,
                      r.invalidCharacterBehaviour, r.invalidCharacterReplaceChar,
                      r.sortOutputMessagesByStatus)
    IN  [StatusCode |-> v.statusCode,
         RawOutput |-> output(v.statusCode, v.defaultOkMessage, v.outputMessages,
                              Newline, TRUE, FALSE, getInfo(r.points, r.heap))]

\* C28: GetInfo calls in between change nothing a later GetInfo returns: the
\* StatusCode and the RawOutput of a GetInfo are those of the run that makes
\* the same UpdateStatus, AddPerformanceDataPoint and setter calls and calls
\* GetInfo once, at the end.
C28_GetInfoReadOnly ==
    ret.op = "GetInfo" =>
        /\ ret.StatusCode = GetInfoOf(Replay(NewFields, calls)).StatusCode
        /\ ret.RawOutput = GetInfoOf(Replay(NewFields, calls)).RawOutput

\* the place of a status in the order OK < WARNING < UNKNOWN < CRITICAL, a
\* status outside 0..3 counting as UNKNOWN
Severity(status) ==
    IF status = OK THEN 0
    ELSE IF status = WARNING THEN 1
    ELSE IF status = CRITICAL THEN 3
    ELSE 2

SomeValueOK == \E v \in Values : CheckValue(th, v) = OK

\* a CRITICAL value is critical on a side where it is also outside the
\* warning range, when the warning bound of that side is present
Nested ==
    \A v \in Values :
        CheckValue(th, v) = CRITICAL =>
            /\ (th.hasCritMin /\ v < th.CriticalMin /\ th.hasWarnMin) => v < th.WarningMin
            /\ (th.hasCritMax /\ v > th.CriticalMax /\ th.hasWarnMax) => v > th.WarningMax

\* the present minima and the present maxima
PresentMins ==
    (IF th.hasWarnMin THEN {th.WarningMin} ELSE {})
        \cup (IF th.hasCritMin THEN {th.CriticalMin} ELSE {})

PresentMaxs ==
    (IF th.hasWarnMax THEN {th.WarningMax} ELSE {})
        \cup (IF th.hasCritMax THEN {th.CriticalMax} ELSE {})

\* C30: for every Thresholds value that passes Validate, whichever of the four
\* bounds are present, some value v has CheckValue(v) = OK, and every value
\* with CheckValue(v) = CRITICAL lies outside the warning range when a warning
\* bound of that side is present.
C30_SatisfiableAndNested ==
    (ret.op = "Validate" /\ ret.err = "nil") => SomeValueOK /\ Nested

\* C30 (as the code has it): Thresholds that pass Validate are nested; some
\* value is OK exactly when no present minimum is above a present maximum,
\* which Validate checks within one severity only: it does not compare
\* WarningMin with CriticalMax nor CriticalMin with WarningMax.
C30_NestedAndSatisfiableIfOrdered ==
    (ret.op = "Validate" /\ ret.err = "nil") =>
        /\ Nested
        /\ SomeValueOK <=> \A min \in PresentMins : \A max \in PresentMaxs : min <= max
        /\ (th.hasWarnMin /\ th.hasWarnMax) => SomeValueOK

\* Validate has accepted the warning minimum 2 with the critical maximum 1,
\* the other two bounds absent: every value is WARNING or CRITICAL
C30_Witness ==
    /\ ret.op = "Validate" /\ ret.err = "nil"
    /\ th.hasWarnMin /\ th.WarningMin = 2 /\ ~th.hasWarnMax
    /\ th.hasCritMax /\ th.CriticalMax = 1 /\ ~th.hasCritMin
    /\ \A v \in Values : CheckValue(th, v) \in {WARNING, CRITICAL}

====
